---- MODULE Spec2Model ----
(***************************************************************************)
(* LocalShare: the signaling relay (RoomService, SignalingService), the    *)
(* client's signaling channel (SignalingManager) and the chunked file      *)
(* transfer engine (FileTransferManager), each as a state machine.         *)
(***************************************************************************)
EXTENDS Integers, Sequences, FiniteSets, TLC

VARIABLES
    \* ---- relay: RoomService / SignalingService / WebSocketHandlers
    rooms,        \* RoomService.rooms: room id -> room.clients, in insertion order
    clients,      \* RoomService.clients: client id -> Client
    connected,    \* client ids whose socket handleConnection accepted
    inbox,        \* per client id: what its ws.send was handed, in order
    sent,         \* the ws.send calls of the last relay operation, in order
    lastOp,       \* the last relay operation, its arguments and the room before it
    opCount,      \* number of relay operations so far
    \* ---- client: SignalingManager and the WebSocket objects it created
    sigState,              \* SignalingManager.state
    currentUserId,         \* SignalingManager.currentUserId (Undefined models null)
    currentRoomId,         \* SignalingManager.currentRoomId (Undefined models null)
    reconnectAttempts,     \* SignalingManager.reconnectAttempts
    maxReconnectAttempts,  \* SignalingManager.maxReconnectAttempts
    reconnectDelay,        \* SignalingManager.reconnectDelay
    ws,                    \* SignalingManager.ws: index into sockets, 0 models null
    sockets,               \* every WebSocket created: readyState, pending connect promise
    timers,                \* pending setTimeout callbacks of attemptReconnect (their delays)
    heartbeat,             \* whether the heartbeat setInterval is running
    lastSched,             \* the last attemptReconnect that scheduled a timer
    sinceConnected,        \* attempts scheduled since the last transition to Connected
    sinceReset,            \* attempts scheduled since the last Connected or disconnect()
    sigLast,               \* the last call or inbound message of the SignalingManager
    \* ---- FileTransferManager instances, one per end of a data channel
    config,           \* FileTransferManager.config (the same at both ends)
    dataChannel,      \* per manager: "null", or the attached channel's readyState
    bufferedAmount,   \* per manager: its channel's bufferedAmount
    sendingFiles,     \* per manager: fileId -> TransferringFile
    receivingFiles,   \* per manager: fileId -> TransferringFile
    transferQueue,    \* per manager: FileTransferManager.transferQueue
    activeTransfers,  \* per manager: FileTransferManager.activeTransfers
    preparing,        \* per manager: sendFile calls suspended in prepareFileChunks
    chan,             \* per manager: messages on the channel, not yet delivered to it
    emitted,          \* per manager and event kind: fileId -> number of events emitted
    completedFile,    \* per manager: fileId -> bytes of the file its completed event carried
    origFile,         \* fileId -> bytes of the file handed to sendFile
    closedPair,       \* TRUE: both ends are managers; FALSE: the peer of "A" is arbitrary
    lastHeader,       \* per manager: the last chunk-header delivered to it, if any
    corruptSeen,      \* per manager: files for which a body not matching its header arrived
    ftLast,           \* the last step of a manager: its sends and what it saw
    injected,         \* number of messages the arbitrary peer has sent
    announced,        \* file ids the arbitrary peer has announced with file-info
    formerOpen,       \* per manager: a channel it no longer refers to is still open
    \* ---- WebRTCManager and the RTCPeerConnection objects it created
    peers,            \* WebRTCManager.peers: peer id -> Peer
    connections,      \* every RTCPeerConnection created, with its channels and tracks
    rtcLast,          \* the last operation or browser event of the WebRTCManager
    fileTransfers,    \* WebRTCManager.fileTransfers, with each sendFileInChunks loop's position
    peerChannel,      \* readyState of the data channel WebRTCManager.sendFile writes to
    channelBuffered,  \* that channel's bufferedAmount
    channelSent,      \* the binary frames put on that channel, in order
    otherSends,       \* how many times another sender has filled the channel's buffer
    sendLast          \* the last step of WebRTCManager.sendFile

relayVars == <<rooms, clients, connected, inbox, sent, lastOp, opCount>>

sigVars == <<sigState, currentUserId, currentRoomId, reconnectAttempts,
             maxReconnectAttempts, reconnectDelay, ws, sockets, timers, heartbeat,
             lastSched, sinceConnected, sinceReset, sigLast>>

ftVars == <<config, dataChannel, bufferedAmount, sendingFiles, receivingFiles,
            transferQueue, activeTransfers, preparing, chan, emitted, completedFile,
            origFile, closedPair, lastHeader, corruptSeen, ftLast, injected, announced,
            formerOpen>>

rtcVars == <<peers, connections, rtcLast>>

sendVars == <<fileTransfers, peerChannel, channelBuffered, channelSent, otherSends,
              sendLast>>

vars == <<relayVars, sigVars, ftVars, rtcVars, sendVars>>

\* what an action of one component leaves alone
notRelay == <<sigVars, ftVars, rtcVars, sendVars>>

notSig == <<relayVars, ftVars, rtcVars, sendVars>>

notFt == <<relayVars, sigVars, rtcVars, sendVars>>

notRtc == <<relayVars, sigVars, ftVars, sendVars>>

notSend == <<relayVars, sigVars, ftVars, rtcVars>>

(***************************************************************************)
(* Bounds and small input sets                                             *)
(***************************************************************************)
MaxRelayOps == 4

ClientIds == {"u1", "u2", "u3"}
RoomIds == {"default", "r1"}
Payloads == {"sdp1"}

Undefined == "undefined"

(***************************************************************************)
(* Generic helpers                                                         *)
(***************************************************************************)
\* reading a property of a parsed object: undefined when the key is absent
Field(m, k) == IF k \in DOMAIN m THEN m[k] ELSE Undefined

\* JSON.parse(JSON.stringify(m)) of a flat object: keys whose value is undefined
\* are omitted by stringify and therefore absent after parse
JsonRoundTrip(m) == [k \in {f \in DOMAIN m : m[f] # Undefined} |-> m[k]]

\* Map.set on an insertion-ordered map keyed by .id
MapSet(entries, e) ==
    IF \E i \in 1..Len(entries) : entries[i].id = e.id
    THEN [i \in 1..Len(entries) |-> IF entries[i].id = e.id THEN e ELSE entries[i]]
    ELSE Append(entries, e)

\* Map.delete on an insertion-ordered map keyed by .id
MapDelete(entries, id) == SelectSeq(entries, LAMBDA e : e.id # id)

Ids(entries) == {entries[i].id : i \in 1..Len(entries)}

IdSeq(entries) == [i \in 1..Len(entries) |-> entries[i].id]

\* Map.set / Map.delete on a map modelled as a function
FnSet(f, k, v) == [x \in DOMAIN f \cup {k} |-> IF x = k THEN v ELSE f[x]]

FnDelete(f, k) == [x \in DOMAIN f \ {k} |-> f[x]]

EmptyMap == [x \in {} |-> Undefined]

(***************************************************************************)
(* Relay                                                                   *)
(***************************************************************************)
DEFAULT_ROOM_ID == "default"

\* Client objects: { id, ws, roomId }; the ws is identified by the client id
Clients == [id : ClientIds, roomId : RoomIds]

\* MessageType of the server's config/constants
MessageTypeJOIN == "join"
MessageTypeLEAVE == "leave"
MessageTypeSIGNAL == "signal"

\* RoomService.sendToClient: client.ws.send(JSON.stringify(message))
SendToClient(client, message) == [ws |-> client.id, data |-> JsonRoundTrip(message)]

RoomClients(roomId) == IF roomId \in DOMAIN rooms THEN rooms[roomId] ELSE <<>>

hasRoom(roomId) == roomId \in DOMAIN rooms

getRoomClients(roomId) == IF roomId \in DOMAIN rooms THEN rooms[roomId] ELSE <<>>

getClient(clientId) == IF clientId \in DOMAIN clients THEN clients[clientId] ELSE Undefined

\* the forEach of joinRoom over room.clients (the new client already set)
RECURSIVE JoinRoomSends(_, _, _)
JoinRoomSendsBroadcastOnly(members, client, roomId) ==
    IF members = <<>> THEN <<>>
    ELSE LET otherClient == Head(members) IN
         (IF otherClient.id # client.id
          THEN << SendToClient(otherClient, [type |-> MessageTypeJOIN, from |-> client.id,
                                             to |-> otherClient.id, roomId |-> roomId]) >>
          ELSE <<>>)
         \o JoinRoomSends(Tail(members), client, roomId)

JoinRoomSends(members, client, roomId) ==
    IF members = <<>> THEN <<>>
    ELSE LET otherClient == Head(members) IN
         (IF otherClient.id # client.id
          THEN << SendToClient(otherClient, [type |-> MessageTypeJOIN, from |-> client.id,
                                             to |-> otherClient.id, roomId |-> roomId]),
                  SendToClient(client, [type |-> MessageTypeJOIN, from |-> otherClient.id,
                                        to |-> client.id, roomId |-> roomId]) >>
          ELSE <<>>)
         \o JoinRoomSends(Tail(members), client, roomId)

\* RoomService.joinRoom(roomId, client)
RoomServiceJoinRoom(roomId, client) ==
    LET members == MapSet(RoomClients(roomId), client) IN
    /\ rooms' = FnSet(rooms, roomId, members)
    /\ clients' = FnSet(clients, client.id, client)
    /\ sent' = JoinRoomSends(members, client, roomId)

\* the forEach of leaveRoom over the remaining room.clients
RECURSIVE LeaveRoomSends(_, _, _)
LeaveRoomSends(members, clientId, roomId) ==
    IF members = <<>> THEN <<>>
    ELSE << SendToClient(Head(members), [type |-> MessageTypeLEAVE, from |-> clientId,
                                         to |-> Head(members).id, roomId |-> roomId]) >>
         \o LeaveRoomSends(Tail(members), clientId, roomId)

\* the tail of leaveRoom: an empty room is deleted
LeaveRoomKeepsEmptyRoom(roomId, remaining) == FnSet(rooms, roomId, remaining)

LeaveRoomRooms(roomId, remaining) ==
    IF Len(remaining) = 0 THEN FnDelete(rooms, roomId) ELSE FnSet(rooms, roomId, remaining)

\* RoomService.leaveRoom(clientId)
RoomServiceLeaveRoom(clientId) ==
    IF clientId \notin DOMAIN clients
    THEN /\ UNCHANGED <<rooms, clients>>
         /\ sent' = <<>>
    ELSE LET client == clients[clientId] IN
         IF client.roomId \notin DOMAIN rooms
         THEN /\ UNCHANGED <<rooms, clients>>
              /\ sent' = <<>>
         ELSE LET remaining == MapDelete(rooms[client.roomId], clientId) IN
              /\ clients' = FnDelete(clients, clientId)
              /\ sent' = LeaveRoomSends(remaining, clientId, client.roomId)
              /\ rooms' = LeaveRoomRooms(client.roomId, remaining)

\* SignalingService.handleWebRTCMessage(message)
HandleWebRTCMessage(message) ==
    /\ UNCHANGED <<rooms, clients>>
    /\ sent' = IF Field(message, "to") = Undefined THEN <<>>
               ELSE IF Field(message, "to") \in DOMAIN clients
                    THEN << SendToClient(clients[message.to], message) >>
                    ELSE <<>>

\* SignalingService.handleMessage(client, message)
SignalingServiceHandleMessage(client, message) ==
    IF Field(message, "type") = MessageTypeJOIN
    THEN RoomServiceJoinRoom(DEFAULT_ROOM_ID, client)
    ELSE IF Field(message, "type") = MessageTypeSIGNAL
         THEN HandleWebRTCMessage(message)
         ELSE /\ UNCHANGED <<rooms, clients>>
              /\ sent' = <<>>

\* messages a client's SignalingManager puts on the wire (signaling.ts)
JoinRoomMessage(userId, roomId) == [type |-> "join", from |-> userId, peerId |-> roomId]

LeaveRoomMessage(userId, roomId) == [type |-> "peer-left", from |-> userId, peerId |-> roomId]

SendOfferMessage(userId, peerId, offer) ==
    [type |-> "offer", from |-> userId, peerId |-> peerId, offer |-> offer]

SendAnswerMessage(userId, peerId, answer) ==
    [type |-> "answer", from |-> userId, peerId |-> peerId, answer |-> answer]

SendIceCandidateMessage(userId, peerId, candidate) ==
    [type |-> "ice-candidate", from |-> userId, peerId |-> peerId, candidate |-> candidate]

PingMessage == [type |-> "ping"]

\* a message of the relay's own SignalingMessage shape, type 'signal'
SignalMessage(from, to, offer) ==
    [type |-> MessageTypeSIGNAL, from |-> from, to |-> to, roomId |-> DEFAULT_ROOM_ID,
     offer |-> offer]

\* what a connected client u may send as one text frame
WireMessages(u) ==
    {JoinRoomMessage(u, DEFAULT_ROOM_ID), LeaveRoomMessage(u, DEFAULT_ROOM_ID), PingMessage}
    \cup {SendOfferMessage(u, p, o) : p \in ClientIds \ {u}, o \in Payloads}
    \cup {SendAnswerMessage(u, p, o) : p \in ClientIds \ {u}, o \in Payloads}
    \cup {SendIceCandidateMessage(u, p, o) : p \in ClientIds \ {u}, o \in Payloads}
    \cup {SignalMessage(u, p, o) : p \in (ClientIds \ {u}) \cup {Undefined}, o \in Payloads}

\* every ws.send of the operation reaches the socket it was called on
Deliver(box, sends) ==
    [c \in ClientIds |->
        box[c] \o [i \in 1..Len(SelectSeq(sends, LAMBDA s : s.ws = c)) |->
                      SelectSeq(sends, LAMBDA s : s.ws = c)[i].data]]

RelayInit ==
    /\ rooms = EmptyMap
    /\ clients = EmptyMap
    /\ connected = {}
    /\ inbox = [c \in ClientIds |-> <<>>]
    /\ sent = <<>>
    /\ lastOp = [op |-> "none"]
    /\ opCount = 0

\* WebSocketHandlers.handleConnection for a registered user id
HandleConnection(userId) ==
    /\ opCount < MaxRelayOps
    /\ userId \notin connected
    /\ connected' = connected \cup {userId}
    /\ sent' = <<>>
    /\ lastOp' = [op |-> "handleConnection", client |-> userId]
    /\ opCount' = opCount + 1
    /\ UNCHANGED <<rooms, clients, inbox>>
    /\ UNCHANGED notRelay

\* ws.on('message'): JSON.parse, then SignalingService.handleMessage
WsMessage(userId, data) ==
    /\ opCount < MaxRelayOps
    /\ userId \in connected
    /\ LET client == [id |-> userId, roomId |-> DEFAULT_ROOM_ID]
           message == JsonRoundTrip(data) IN
       /\ SignalingServiceHandleMessage(client, message)
       /\ lastOp' = [op |-> "handleMessage", client |-> userId, message |-> message,
                     roomId |-> DEFAULT_ROOM_ID,
                     before |-> IdSeq(RoomClients(DEFAULT_ROOM_ID)),
                     registered |-> DOMAIN clients]
    /\ inbox' = Deliver(inbox, sent')
    /\ opCount' = opCount + 1
    /\ UNCHANGED connected
    /\ UNCHANGED notRelay

\* a direct call of RoomService.joinRoom
JoinRoom(roomId, client) ==
    /\ opCount < MaxRelayOps
    /\ RoomServiceJoinRoom(roomId, client)
    /\ lastOp' = [op |-> "joinRoom", client |-> client.id, roomId |-> roomId,
                  before |-> IdSeq(RoomClients(roomId))]
    /\ inbox' = Deliver(inbox, sent')
    /\ opCount' = opCount + 1
    /\ UNCHANGED connected
    /\ UNCHANGED notRelay

\* the rooms whose client map holds clientId
RoomsOf(clientId) == {r \in DOMAIN rooms : clientId \in Ids(rooms[r])}

\* a direct call of RoomService.leaveRoom
LeaveRoom(clientId) ==
    /\ opCount < MaxRelayOps
    /\ RoomServiceLeaveRoom(clientId)
    /\ lastOp' = [op |-> "leaveRoom", client |-> clientId,
                  roomId |-> IF clientId \in DOMAIN clients
                             THEN clients[clientId].roomId ELSE Undefined,
                  before |-> IF clientId \in DOMAIN clients
                             THEN IdSeq(RoomClients(clients[clientId].roomId)) ELSE <<>>,
                  memberOf |-> RoomsOf(clientId),
                  changed |-> rooms' # rooms \/ clients' # clients]
    /\ inbox' = Deliver(inbox, sent')
    /\ opCount' = opCount + 1
    /\ UNCHANGED connected
    /\ UNCHANGED notRelay

RelayNext ==
    \/ \E u \in ClientIds : HandleConnection(u)
    \/ \E u \in ClientIds : \E d \in WireMessages(u) : WsMessage(u, d)
    \/ \E r \in RoomIds : \E c \in Clients : JoinRoom(r, c)
    \/ \E c \in ClientIds : LeaveRoom(c)

\* ws.on('close') of a connected client's socket: the handler body is empty, so
\* the Client stays in the tables
RelayWsClose(userId) ==
    /\ userId \in connected
    /\ connected' = connected \ {userId}
    /\ sent' = <<>>
    /\ lastOp' = [op |-> "close", client |-> userId]
    /\ UNCHANGED <<rooms, clients, inbox, opCount>>
    /\ UNCHANGED notRelay

\* the relay as deployed: connections, their frames and their close events, and
\* leaveRoom calls
ConnectionsNext ==
    \/ \E u \in ClientIds : HandleConnection(u)
    \/ \E u \in ClientIds : \E d \in WireMessages(u) : WsMessage(u, d)
    \/ \E c \in ClientIds : LeaveRoom(c)
    \/ \E u \in ClientIds : RelayWsClose(u)

\* ids that uuidv4() hands to createRoom
CreatedRoomIds == {"uuid1"}

AllRoomIds == RoomIds \cup CreatedRoomIds

\* RoomService.createRoom(name): a room with a fresh id and no client
CreateRoom(id) ==
    /\ opCount < MaxRelayOps
    /\ id \notin DOMAIN rooms
    /\ rooms' = FnSet(rooms, id, <<>>)
    /\ sent' = <<>>
    /\ lastOp' = [op |-> "createRoom", roomId |-> id]
    /\ opCount' = opCount + 1
    /\ UNCHANGED <<clients, connected, inbox>>
    /\ UNCHANGED notRelay

\* RoomService.deleteRoom(roomId)
DeleteRoom(roomId) ==
    /\ opCount < MaxRelayOps
    /\ rooms' = FnDelete(rooms, roomId)
    /\ sent' = <<>>
    /\ lastOp' = [op |-> "deleteRoom", roomId |-> roomId, ok |-> roomId \in DOMAIN rooms]
    /\ opCount' = opCount + 1
    /\ UNCHANGED <<clients, connected, inbox>>
    /\ UNCHANGED notRelay

\* RoomService.addClientToRoom(roomId, client)
AddClientToRoom(roomId, client) ==
    /\ opCount < MaxRelayOps
    /\ IF roomId \notin DOMAIN rooms
       THEN UNCHANGED <<rooms, clients>>
       ELSE /\ rooms' = FnSet(rooms, roomId, MapSet(rooms[roomId], client))
            /\ clients' = FnSet(clients, client.id, client)
    /\ sent' = <<>>
    /\ lastOp' = [op |-> "addClientToRoom", roomId |-> roomId, client |-> client.id,
                  ok |-> roomId \in DOMAIN rooms]
    /\ opCount' = opCount + 1
    /\ UNCHANGED <<connected, inbox>>
    /\ UNCHANGED notRelay

\* RoomService.removeClientFromRoom(roomId, clientId)
RemoveClientFromRoom(roomId, clientId) ==
    /\ opCount < MaxRelayOps
    /\ IF roomId \notin DOMAIN rooms
       THEN UNCHANGED <<rooms, clients>>
       ELSE /\ rooms' = FnSet(rooms, roomId, MapDelete(rooms[roomId], clientId))
            /\ clients' = FnDelete(clients, clientId)
    /\ sent' = <<>>
    /\ lastOp' = [op |-> "removeClientFromRoom", roomId |-> roomId, client |-> clientId,
                  ok |-> roomId \in DOMAIN rooms]
    /\ opCount' = opCount + 1
    /\ UNCHANGED <<connected, inbox>>
    /\ UNCHANGED notRelay

\* every public operation of RoomService, with the relay's own handlers
RoomsNext ==
    \/ \E u \in ClientIds : HandleConnection(u)
    \/ \E u \in ClientIds : \E d \in WireMessages(u) : WsMessage(u, d)
    \/ \E r \in RoomIds : \E c \in Clients : JoinRoom(r, c)
    \/ \E c \in ClientIds : LeaveRoom(c)
    \/ \E id \in CreatedRoomIds : CreateRoom(id)
    \/ \E r \in AllRoomIds : DeleteRoom(r)
    \/ \E r \in AllRoomIds : \E c \in Clients : AddClientToRoom(r, c)
    \/ \E r \in AllRoomIds : \E c \in ClientIds : RemoveClientFromRoom(r, c)

(***************************************************************************)
(* Client signaling channel: SignalingManager                              *)
(***************************************************************************)
MaxSockets == 3
MaxTimers == 2

DefaultMaxReconnectAttempts == 5
DefaultReconnectDelay == 1000
NORMAL_CLOSE == 1000
\* 1006: the code a close event carries when the transport failed
ABNORMAL_CLOSE == NORMAL_CLOSE + 6

SigUserIds == {"u1"}
SigRoomIds == {"r1"}
ConfiguredMaxAttempts == {1, 2}
ConfiguredDelays == {500}
CloseCodes == {NORMAL_CLOSE, ABNORMAL_CLOSE}

RECURSIVE Pow2(_)
Pow2(n) == IF n <= 0 THEN 1 ELSE 2 * Pow2(n - 1)

\* what the manager's fields and its sockets and timers are at the start of a step
SigBefore ==
    [state |-> sigState, user |-> currentUserId, room |-> currentRoomId,
     attempts |-> reconnectAttempts, ws |-> ws, sockets |-> sockets,
     timers |-> Len(timers)]

\* one call or inbound message: what it was, how it went (detail), whether the
\* call reported success, the frames it sent and the events it emitted
SigStep(op, detail, ok, out, events) ==
    [op |-> op, detail |-> detail, ok |-> ok, out |-> out, events |-> events,
     before |-> SigBefore]

NoSigStep == [op |-> "none"]

SigInit ==
    /\ sigState = "disconnected"
    /\ currentUserId = Undefined
    /\ currentRoomId = Undefined
    /\ sigLast = NoSigStep
    /\ reconnectAttempts = 0
    /\ maxReconnectAttempts = DefaultMaxReconnectAttempts
    /\ reconnectDelay = DefaultReconnectDelay
    /\ ws = 0
    /\ sockets = <<>>
    /\ timers = <<>>
    /\ heartbeat = FALSE
    /\ lastSched = [k |-> 0]
    /\ sinceConnected = 0
    /\ sinceReset = 0

\* a WebSocket object: readyState; pending = the connect() that created it still
\* awaits it; failing = close() was called before it opened, so the transport must
\* fail it; errored = its error event has fired; closed = its close event has fired
NewSocket == [readyState |-> "CONNECTING", pending |-> TRUE, failing |-> FALSE,
              errored |-> FALSE, closed |-> FALSE]

\* connect(userId) past its early return: currentUserId, CONNECTING, new WebSocket
ConnectBody(userId) ==
    /\ currentUserId' = userId
    /\ sigState' = "connecting"
    /\ sockets' = Append(sockets, NewSocket)
    /\ ws' = Len(sockets) + 1

ConnectedOnly(state) == state = "connected"

\* the early return of connect
ConnectedOrConnecting(state) == state \in {"connected", "connecting"}

\* SignalingManager.connect(userId), called by the application; returning early
\* resolves the promise
Connect(userId) ==
    /\ Len(sockets) < MaxSockets
    /\ IF ConnectedOrConnecting(sigState)
       THEN /\ UNCHANGED <<currentUserId, sigState, sockets, ws>>
            /\ sigLast' = SigStep("connect", "returned", TRUE, <<>>, <<>>)
       ELSE /\ ConnectBody(userId)
            /\ sigLast' = SigStep("connect", "started", FALSE, <<>>, <<"state-change">>)
    /\ UNCHANGED <<currentRoomId, reconnectAttempts, maxReconnectAttempts, reconnectDelay, timers,
                   heartbeat, lastSched, sinceConnected, sinceReset>>
    /\ UNCHANGED notSig

\* ws.onopen of socket i
WsOpen(i) ==
    /\ sockets[i].readyState = "CONNECTING"
    /\ sockets' = [sockets EXCEPT ![i].readyState = "OPEN", ![i].pending = FALSE]
    /\ sigState' = "connected"
    /\ reconnectAttempts' = 0
    /\ heartbeat' = TRUE
    /\ sinceConnected' = 0
    /\ sinceReset' = 0
    /\ sigLast' = NoSigStep
    /\ UNCHANGED <<currentUserId, currentRoomId, maxReconnectAttempts, reconnectDelay, ws,
                   timers, lastSched>>
    /\ UNCHANGED notSig

\* ws.onerror of socket i: the transport failed (readyState is CLOSED by then) and
\* its close event is still to come; a connect() still awaiting this socket is
\* rejected and its catch sets ERROR
WsError(i) ==
    /\ sockets[i].readyState \in {"CONNECTING", "OPEN", "CLOSING"}
    /\ ~sockets[i].errored
    /\ sockets' = [sockets EXCEPT ![i].readyState = "CLOSED", ![i].pending = FALSE,
                                  ![i].errored = TRUE]
    /\ sigState' = IF sockets[i].pending THEN "error" ELSE sigState
    /\ sigLast' = [op |-> "error", socket |-> i, added |-> 0,
                    events |-> <<"error">> \o
                               (IF ~sockets[i].pending THEN <<>>
                                ELSE IF sigState = "error" THEN <<"error">>
                                ELSE <<"state-change", "error">>)]
    /\ UNCHANGED <<currentUserId, currentRoomId, reconnectAttempts, maxReconnectAttempts, reconnectDelay,
                   ws, timers, heartbeat, lastSched, sinceConnected, sinceReset>>
    /\ UNCHANGED notSig

ReconnectAlways(code) == reconnectAttempts < maxReconnectAttempts

\* the guard of ws.onclose under which it calls attemptReconnect
ReconnectWanted(code) ==
    code # NORMAL_CLOSE /\ reconnectAttempts < maxReconnectAttempts

\* the delay attemptReconnect computes once reconnectAttempts is incremented
BackoffDelayExponentOffByOne(attempt) == reconnectDelay * Pow2(attempt)

BackoffDelay(attempt) == reconnectDelay * Pow2(attempt - 1)

\* SignalingManager.attemptReconnect
AttemptReconnect ==
    IF reconnectAttempts >= maxReconnectAttempts
    THEN UNCHANGED <<reconnectAttempts, timers, lastSched, sinceConnected, sinceReset>>
    ELSE /\ reconnectAttempts' = reconnectAttempts + 1
         /\ timers' = Append(timers, BackoffDelay(reconnectAttempts + 1))
         /\ sinceConnected' = sinceConnected + 1
         /\ sinceReset' = sinceReset + 1
         /\ lastSched' = [k |-> reconnectAttempts + 1,
                          delay |-> BackoffDelay(reconnectAttempts + 1),
                          max |-> maxReconnectAttempts,
                          base |-> reconnectDelay,
                          sinceConnected |-> sinceConnected + 1,
                          sinceReset |-> sinceReset + 1]

\* what ws.onclose emits: state-change from setState, and the error of an
\* attemptReconnect that finds the attempts used up
CloseEvents(code) ==
    (IF sigState # "disconnected" THEN <<"state-change">> ELSE <<>>) \o
    (IF ReconnectWanted(code) /\ reconnectAttempts >= maxReconnectAttempts
     THEN <<"error">> ELSE <<>>)

\* ws.onclose of socket i with close code `code`
WsClose(i, code) ==
    /\ ~sockets[i].closed
    /\ \/ sockets[i].errored /\ code = ABNORMAL_CLOSE
       \/ sockets[i].readyState \in {"OPEN", "CLOSING"} /\ ~sockets[i].failing
    /\ Len(timers) < MaxTimers
    /\ sockets' = [sockets EXCEPT ![i].readyState = "CLOSED", ![i].closed = TRUE]
    /\ sigState' = "disconnected"
    /\ heartbeat' = FALSE
    /\ IF ReconnectWanted(code)
       THEN AttemptReconnect
       ELSE UNCHANGED <<reconnectAttempts, timers, lastSched, sinceConnected, sinceReset>>
    /\ sigLast' = [op |-> "close", socket |-> i, code |-> code,
                    exhausted |-> reconnectAttempts >= maxReconnectAttempts,
                    connected |-> sigState = "connected",
                    events |-> CloseEvents(code),
                    added |-> Len(timers') - Len(timers)]
    /\ UNCHANGED <<currentUserId, currentRoomId, maxReconnectAttempts, reconnectDelay, ws>>
    /\ UNCHANGED notSig

TimerNeverReconnects == FALSE

\* the guard of the setTimeout callback: it connects only while a user id is set
TimerReconnects == currentUserId # Undefined

\* the setTimeout callback of attemptReconnect (timer t fires)
ReconnectTimer(t) ==
    /\ t \in 1..Len(timers)
    /\ Len(sockets) < MaxSockets
    /\ timers' = [j \in 1..(Len(timers) - 1) |-> IF j < t THEN timers[j] ELSE timers[j + 1]]
    /\ IF TimerReconnects /\ ~ConnectedOrConnecting(sigState)
       THEN ConnectBody(currentUserId)
       ELSE UNCHANGED <<currentUserId, sigState, sockets, ws>>
    /\ sigLast' = NoSigStep
    /\ UNCHANGED <<currentRoomId, reconnectAttempts, maxReconnectAttempts, reconnectDelay, heartbeat,
                   lastSched, sinceConnected, sinceReset>>
    /\ UNCHANGED notSig

\* SignalingManager.sendMessage: the frame goes out only on an open transport
CanSend == ws # 0 /\ sockets[ws].readyState = "OPEN"

\* SignalingManager.disconnect(): leaveRoom() if a transport and a room are set;
\* ws.close(1000) starts the closing handshake of an open socket and makes the
\* transport fail one that is still connecting
Disconnect ==
    /\ heartbeat' = FALSE
    /\ currentRoomId' = Undefined
    /\ sigLast' = [op |-> "disconnect",
                    out |-> IF CanSend /\ currentRoomId # Undefined
                            THEN <<LeaveRoomMessage(currentUserId, currentRoomId)>>
                            ELSE <<>>]
    /\ IF ws # 0
       THEN /\ sockets' = [sockets EXCEPT
                              ![ws].readyState = IF @ \in {"OPEN", "CONNECTING"}
                                                 THEN "CLOSING" ELSE @,
                              ![ws].failing = (sockets[ws].readyState = "CONNECTING")]
            /\ ws' = 0
       ELSE UNCHANGED <<sockets, ws>>
    /\ sigState' = "disconnected"
    /\ currentUserId' = Undefined
    /\ reconnectAttempts' = 0
    /\ sinceReset' = 0
    /\ UNCHANGED <<maxReconnectAttempts, reconnectDelay, timers, lastSched, sinceConnected>>
    /\ UNCHANGED notSig

\* SignalingManager.setReconnectConfig(maxAttempts, delay)
SetReconnectConfig(maxAttempts, delay) ==
    /\ <<maxAttempts, delay>> # <<maxReconnectAttempts, reconnectDelay>>
    /\ maxReconnectAttempts' = maxAttempts
    /\ reconnectDelay' = delay
    /\ sigLast' = NoSigStep
    /\ UNCHANGED <<sigState, currentUserId, currentRoomId, reconnectAttempts, ws, sockets,
                   timers, heartbeat, lastSched, sinceConnected, sinceReset>>
    /\ UNCHANGED notSig

\* what is unchanged by a call that only sends and by an inbound message
sigTransportUnchanged ==
    UNCHANGED <<sigState, currentUserId, reconnectAttempts, maxReconnectAttempts,
                reconnectDelay, ws, sockets, timers, heartbeat, lastSched,
                sinceConnected, sinceReset>>

\* SignalingManager.joinRoom(roomId)
SigJoinRoom(roomId) ==
    /\ IF sigState # "connected"
       THEN /\ sigLast' = SigStep("joinRoom", "", FALSE, <<>>, <<"error">>)
            /\ UNCHANGED currentRoomId
       ELSE IF CanSend
       THEN /\ sigLast' = SigStep("joinRoom", "", TRUE,
                                  <<JoinRoomMessage(currentUserId, roomId)>>, <<>>)
            /\ currentRoomId' = roomId
       ELSE /\ sigLast' = SigStep("joinRoom", "", FALSE, <<>>, <<>>)
            /\ UNCHANGED currentRoomId
    /\ sigTransportUnchanged
    /\ UNCHANGED notSig

\* SignalingManager.leaveRoom()
SigLeaveRoom ==
    /\ IF currentRoomId = Undefined
       THEN /\ sigLast' = SigStep("leaveRoom", "", TRUE, <<>>, <<>>)
            /\ UNCHANGED currentRoomId
       ELSE IF CanSend
       THEN /\ sigLast' = SigStep("leaveRoom", "", TRUE,
                                  <<LeaveRoomMessage(currentUserId, currentRoomId)>>, <<>>)
            /\ currentRoomId' = Undefined
       ELSE /\ sigLast' = SigStep("leaveRoom", "", FALSE, <<>>, <<>>)
            /\ UNCHANGED currentRoomId
    /\ sigTransportUnchanged
    /\ UNCHANGED notSig

\* text frames a socket may deliver: text that is not JSON, JSON null, and JSON
\* objects (parses = JSON.parse returns, value = what it returns)
Unparseable == [parses |-> FALSE]

InboundData ==
    {Unparseable,
     [parses |-> TRUE, value |-> [null |-> TRUE]],
     [parses |-> TRUE, value |-> [type |-> "peer-joined", peerId |-> "u2"]],
     [parses |-> TRUE, value |-> [type |-> "offer", peerId |-> "u2"]],
     [parses |-> TRUE, value |-> [type |-> "pong"]]}

\* the switch of handleMessage: the event of the message's type, if the fields it
\* needs are present
DispatchEvents(message) ==
    LET type == Field(message, "type")
        has(k) == Field(message, k) # Undefined
    IN  IF type \in {"peer-joined", "peer-left"} /\ has("peerId") THEN <<type>>
        ELSE IF type \in {"offer", "answer"} /\ has(type) /\ has("peerId") THEN <<type>>
        ELSE IF type = "ice-candidate" /\ has("candidate") /\ has("peerId") THEN <<type>>
        ELSE <<>>

handleMessageSilentOnFailure(data) ==
    IF ~data.parses THEN <<>>
    ELSE IF "null" \in DOMAIN data.value THEN <<"message">>
    ELSE <<"message">> \o DispatchEvents(data.value)

\* SignalingManager.handleMessage(data) as the events it emits: JSON.parse throws
\* on text that is not JSON, and reading .type of null throws after the message
\* event; the catch emits error
handleMessage(data) ==
    IF ~data.parses THEN <<"error">>
    ELSE IF "null" \in DOMAIN data.value THEN <<"message", "error">>
    ELSE <<"message">> \o DispatchEvents(data.value)

\* ws.onmessage of socket i; afterUnparseable = the message before it on the
\* current socket was unparseable
SigOnMessage(i, data) ==
    /\ i \in 1..Len(sockets)
    /\ sockets[i].readyState = "OPEN"
    /\ sigLast' = SigStep("message",
                          IF ~data.parses THEN "unparseable"
                          ELSE IF DispatchEvents(data.value) # <<>> THEN "dispatched"
                          ELSE "other",
                          TRUE, <<>>, handleMessage(data)) @@
                   [socket |-> i, data |-> data,
                    afterUnparseable |-> /\ sigLast.op = "message"
                                         /\ sigLast.detail = "unparseable"
                                         /\ sigLast.socket = i]
    /\ UNCHANGED currentRoomId
    /\ sigTransportUnchanged
    /\ UNCHANGED notSig

SigNext ==
    \/ \E u \in SigUserIds : Connect(u)
    \/ \E i \in 1..Len(sockets) : WsOpen(i)
    \/ \E i \in 1..Len(sockets) : WsError(i)
    \/ \E i \in 1..Len(sockets) : \E code \in CloseCodes : WsClose(i, code)
    \/ \E t \in 1..Len(timers) : ReconnectTimer(t)
    \/ Disconnect
    \/ \E m \in ConfiguredMaxAttempts : \E d \in ConfiguredDelays : SetReconnectConfig(m, d)

\* the setInterval callback of startHeartbeat: a ping if the current transport is
\* open
HeartbeatTick ==
    /\ heartbeat
    /\ sigLast' = [op |-> "heartbeat",
                    out |-> IF CanSend THEN <<PingMessage>> ELSE <<>>,
                    readyState |-> IF ws = 0 THEN "none" ELSE sockets[ws].readyState]
    /\ UNCHANGED currentRoomId
    /\ sigTransportUnchanged
    /\ UNCHANGED notSig

\* a session: connecting, rooms and inbound messages, under the reconnect
\* configuration the manager starts with
SessionNext ==
    \/ \E u \in SigUserIds : Connect(u)
    \/ \E i \in 1..Len(sockets) : WsOpen(i)
    \/ \E i \in 1..Len(sockets) : WsError(i)
    \/ \E i \in 1..Len(sockets) : \E code \in CloseCodes : WsClose(i, code)
    \/ \E t \in 1..Len(timers) : ReconnectTimer(t)
    \/ Disconnect
    \/ \E roomId \in SigRoomIds : SigJoinRoom(roomId)
    \/ SigLeaveRoom
    \/ \E i \in 1..MaxSockets : \E data \in InboundData : SigOnMessage(i, data)
    \/ HeartbeatTick


(***************************************************************************)
(* File transfer engine: FileTransferManager                               *)
(***************************************************************************)
MaxFileSize == 3
MaxQueue == 3
MaxInjected == 2
MaxReassemblySize == 5

DEFAULT_MAX_CONCURRENT == 3
HIGH_WATER_MARK == 16777216

Mgrs == {"A", "B"}
Other(m) == IF m = "A" THEN "B" ELSE "A"

\* ids generateFileId hands out at each end, and ids an arbitrary peer announces
LocalFileIds(m) == IF m = "A" THEN {"f1", "f2"} ELSE {"g1"}
PeerFileIds == {"p1"}
AllFileIds == {"f1", "f2", "g1", "p1"}

ChunkSizes == {2}

SmallChunkSizes == {1, 2}
ConcurrencyLimits == {1}
BufferedAmounts == {0, HIGH_WATER_MARK + 1}

\* the bytes of a file of the given size: byte i is i, so every position differs
FileBytes(size) == [i \in 1..size |-> i]

\* Math.ceil(a / b) for a >= 0, b > 0
Ceil(a, b) == (a + b - 1) \div b

\* Math.min
Min(a, b) == IF a < b THEN a ELSE b

Max(a, b) == IF a > b THEN a ELSE b

\* calculateChecksum: a digest of the bytes, modelled collision-free
calculateChecksum(data) == [sha256of |-> data]

\* file.slice(start, end) of bytes, 0-based and end-exclusive
Slice(bytes, start, end) == [i \in 1..(end - start) |-> bytes[start + i]]

\* chunk.checksum = ...: the property exists only once it is assigned
WithChecksum(chunk, checksum) ==
    [k \in DOMAIN chunk \cup {"checksum"} |-> IF k = "checksum" THEN checksum ELSE chunk[k]]

\* the chunk prepareFileChunks builds in iteration i
FileChunkOverlapping(fileId, bytes, i) ==
    LET start == i * config.chunkSize
        end == Min(start + config.chunkSize + 1, Len(bytes))
        data == Slice(bytes, start, end)
        chunk == [id |-> <<fileId, i>>, index |-> i, data |-> data, size |-> Len(data)]
    IN  IF config.enableChecksum THEN WithChecksum(chunk, calculateChecksum(data)) ELSE chunk

FileChunk(fileId, bytes, i) ==
    LET start == i * config.chunkSize
        end == Min(start + config.chunkSize, Len(bytes))
        data == Slice(bytes, start, end)
        chunk == [id |-> <<fileId, i>>, index |-> i, data |-> data, size |-> Len(data)]
    IN  IF config.enableChecksum THEN WithChecksum(chunk, calculateChecksum(data)) ELSE chunk

\* prepareFileChunks: the chunks array, built for i = 0 .. totalChunks - 1
prepareFileChunks(fileId, bytes, totalChunks) ==
    [j \in 1..totalChunks |-> FileChunk(fileId, bytes, j - 1)]

\* chunks[index] of a JavaScript array is undefined outside 0 .. length - 1
HasChunk(chunks, index) == index + 1 \in 1..Len(chunks)

ChunkAt(chunks, index) == chunks[index + 1]

\* Array.prototype.sort((a, b) => a.index - b.index): stable, ascending by index
RECURSIVE SortByIndex(_)
InsertByIndex(sorted, c) ==
    LET k == Cardinality({i \in 1..Len(sorted) : sorted[i].index <= c.index})
    IN  SubSeq(sorted, 1, k) \o <<c>> \o SubSeq(sorted, k + 1, Len(sorted))

ArrivalOrder(chunkSeq) == chunkSeq

SortByIndex(chunkSeq) ==
    IF chunkSeq = <<>> THEN <<>>
    ELSE InsertByIndex(SortByIndex(SubSeq(chunkSeq, 1, Len(chunkSeq) - 1)),
                       chunkSeq[Len(chunkSeq)])

\* the copy loop of reconstructFile: each chunk's bytes at the running offset
RECURSIVE ConcatChunks(_)
ConcatChunks(chunkSeq) ==
    IF chunkSeq = <<>> THEN <<>>
    ELSE Head(chunkSeq).data \o ConcatChunks(Tail(chunkSeq))

\* reconstructFile(transferFile): the bytes of the File it returns
reconstructFile(transferFile) == ConcatChunks(SortByIndex(transferFile.receivedChunks))

\* the TransferringFile sendFile creates
NewSendingFile(size) ==
    [size |-> size, chunks |-> <<>>, receivedChunks |-> <<>>,
     totalChunks |-> Ceil(size, config.chunkSize), status |-> "preparing",
     transferredSize |-> 0, retryCount |-> 0]

\* the TransferringFile handleFileInfo creates (new File([], name) has size 0)
NewReceivingFile(message) ==
    [size |-> 0, chunks |-> <<>>, receivedChunks |-> <<>>,
     totalChunks |-> message.totalChunks, status |-> "pending",
     transferredSize |-> 0, retryCount |-> 0]

\* startTransfer applied while processTransferQueue drains the queue: the result
\* is the queue, the active count and the sending table it leaves
RECURSIVE processTransferQueue(_, _, _, _)
processTransferQueue(queue, active, files, limit) ==
    IF Len(queue) > 0 /\ active < limit
    THEN LET fileId == Head(queue) IN
         IF fileId \in DOMAIN files
         THEN processTransferQueue(Tail(queue), active + 1,
                                   [files EXCEPT ![fileId].status = "transferring"], limit)
         ELSE processTransferQueue(Tail(queue), active, files, limit)
    ELSE [queue |-> queue, active |-> active, files |-> files]

\* transferQueue.indexOf(fileId), then splice(index, 1)
RemoveFirstFromQueue(queue, fileId) ==
    IF \E i \in 1..Len(queue) : queue[i] = fileId
    THEN LET k == CHOOSE i \in 1..Len(queue) :
                      queue[i] = fileId /\ \A j \in 1..(i - 1) : queue[j] # fileId
         IN  SubSeq(queue, 1, k - 1) \o SubSeq(queue, k + 1, Len(queue))
    ELSE queue

InQueue(queue, fileId) == \E i \in 1..Len(queue) : queue[i] = fileId

\* control messages (JSON text frames) and chunk bodies (binary frames)
Control(message) == [kind |-> "string", json |-> message]

Binary(data) == [kind |-> "binary", data |-> data]

FileInfoMessage(fileId, transferFile) ==
    [type |-> "file-info", fileId |-> fileId, fileSize |-> transferFile.size,
     totalChunks |-> transferFile.totalChunks, chunkSize |-> config.chunkSize,
     enableChecksum |-> config.enableChecksum]

ChunkRequestMessage(fileId, chunkIndex) ==
    [type |-> "chunk-request", fileId |-> fileId, chunkIndex |-> chunkIndex]

ChunkAckMessage(fileId, chunkIndex) ==
    [type |-> "chunk-ack", fileId |-> fileId, chunkIndex |-> chunkIndex]

\* the header as JSON.stringify writes it: a checksum that is undefined is omitted
ChunkHeaderMessage(fileId, chunk) ==
    LET header == [type |-> "chunk-header", fileId |-> fileId, chunkId |-> chunk.id,
                   chunkIndex |-> chunk.index, chunkSize |-> chunk.size]
    IN  IF "checksum" \in DOMAIN chunk THEN WithChecksum(header, chunk.checksum) ELSE header

TransferCompleteMessage(fileId) == [type |-> "transfer-complete", fileId |-> fileId]

TransferErrorMessage(fileId) == [type |-> "transfer-error", fileId |-> fileId, error |-> "error"]

channelOpen(m) == dataChannel[m] = "open"

NoEvents == [k \in {"cancelled", "failed", "completed"} |-> [f \in AllFileIds |-> 0]]

\* the managers of the configuration: with an arbitrary peer only "A" is one
Managers == IF closedPair THEN Mgrs ELSE {"A"}

\* what a call of a handler has done so far: the tables, the frames handed to
\* the channel, the events emitted, and whether an exception is propagating
Effect(m) ==
    [sending |-> sendingFiles[m], receiving |-> receivingFiles[m],
     queue |-> transferQueue[m], active |-> activeTransfers[m],
     out |-> <<>>, events |-> <<>>, thrown |-> FALSE]

Event(kind, fileId, file) == [kind |-> kind, fileId |-> fileId, file |-> file]

sendControlMessageNeverThrows(m, eff, message) ==
    IF ~channelOpen(m) THEN eff
    ELSE [eff EXCEPT !.out = Append(@, Control(message))]

\* sendControlMessage: throws unless the channel is open, else sends the JSON text
sendControlMessage(m, eff, message) ==
    IF ~channelOpen(m) THEN [eff EXCEPT !.thrown = TRUE]
    ELSE [eff EXCEPT !.out = Append(@, Control(message))]

\* processTransferQueue on the tables of an effect
processQueueOf(eff) ==
    LET r == processTransferQueue(eff.queue, eff.active, eff.sending,
                                  config.maxConcurrentTransfers)
    IN  [eff EXCEPT !.queue = r.queue, !.active = r.active, !.sending = r.files]

\* handleFileInfo
handleFileInfo(m, eff, message) ==
    sendControlMessage(m,
        [eff EXCEPT !.receiving = FnSet(@, message.fileId, NewReceivingFile(message))],
        ChunkRequestMessage(message.fileId, 0))

\* updateSendProgress
updateSendProgress(eff, fileId, chunkSize) ==
    IF fileId \notin DOMAIN eff.sending THEN eff
    ELSE [eff EXCEPT !.sending[fileId].transferredSize = @ + chunkSize]

\* sendFileChunk: the header as JSON text, then the body, then the progress update
sendFileChunk(m, eff, chunk, fileId) ==
    IF ~channelOpen(m) THEN eff
    ELSE updateSendProgress(
             [eff EXCEPT !.out = @ \o <<Control(ChunkHeaderMessage(fileId, chunk)),
                                        Binary(chunk.data)>>],
             fileId, chunk.size)

\* handleChunkRequest
handleChunkRequest(m, eff, message) ==
    IF message.fileId \notin DOMAIN eff.sending THEN eff
    ELSE IF ~HasChunk(eff.sending[message.fileId].chunks, message.chunkIndex) THEN eff
    ELSE sendFileChunk(m, eff,
                       ChunkAt(eff.sending[message.fileId].chunks, message.chunkIndex),
                       message.fileId)

\* completeTransfer(fileId, isSender)
completeTransfer(m, eff, fileId, isSender) ==
    IF isSender
    THEN IF fileId \notin DOMAIN eff.sending THEN eff
         ELSE LET sent1 == sendControlMessage(m,
                               [eff EXCEPT !.sending = FnDelete(@, fileId)],
                               TransferCompleteMessage(fileId))
              IN  IF sent1.thrown THEN sent1
                  ELSE processQueueOf([sent1 EXCEPT !.active = @ - 1])
    ELSE IF fileId \notin DOMAIN eff.receiving THEN eff
         ELSE LET file == reconstructFile(eff.receiving[fileId]) IN
              processQueueOf([eff EXCEPT !.receiving = FnDelete(@, fileId),
                                         !.events = Append(@, Event("completed", fileId, file)),
                                         !.active = @ - 1])

\* handleChunkAck
handleChunkAck(m, eff, message) ==
    IF message.fileId \notin DOMAIN eff.sending THEN eff
    ELSE IF message.chunkIndex + 1 < eff.sending[message.fileId].totalChunks
         THEN sendControlMessage(m, eff,
                  ChunkRequestMessage(message.fileId, message.chunkIndex + 1))
         ELSE completeTransfer(m, eff, message.fileId, TRUE)

\* handleTransferComplete
handleTransferComplete(m, eff, message) == completeTransfer(m, eff, message.fileId, FALSE)

\* handleTransferError: logs
handleTransferError(eff) == eff

\* handleFileChunk: logs the byte length of the body
handleFileChunk(m, eff, data) == eff

\* handleControlMessage: the switch on message.type
handleControlMessage(m, eff, message) ==
    CASE message.type = "file-info" -> handleFileInfo(m, eff, message)
      [] message.type = "chunk-request" -> handleChunkRequest(m, eff, message)
      [] message.type = "chunk-ack" -> handleChunkAck(m, eff, message)
      [] message.type = "transfer-complete" -> handleTransferComplete(m, eff, message)
      [] message.type = "transfer-error" -> handleTransferError(eff)
      [] OTHER -> eff

\* handleDataChannelMessage: text frames are control messages, binary frames are
\* chunk bodies; an exception of a handler is caught and logged
handleDataChannelMessage(m, eff, frame) ==
    IF frame.kind = "string" THEN handleControlMessage(m, eff, frame.json)
    ELSE handleFileChunk(m, eff, frame.data)

\* handleDataChannelClose: a failed event for every entry, then all tables cleared
RECURSIVE FailedEvents(_)
FailedEvents(idSeq) ==
    IF idSeq = <<>> THEN <<>>
    ELSE <<Event("failed", Head(idSeq), Undefined)>> \o FailedEvents(Tail(idSeq))

SetToSeq(S) ==
    CHOOSE q \in [1..Cardinality(S) -> S] : \A i, j \in 1..Cardinality(S) : i # j => q[i] # q[j]

\* the two forEach loops of handleDataChannelClose: status FAILED and a failed
\* event for every sending entry, then for every receiving entry
MarkFailed(files) == [f \in DOMAIN files |-> [files[f] EXCEPT !.status = "failed"]]

failAllTransfers(eff) ==
    [eff EXCEPT !.events = @ \o FailedEvents(SetToSeq(DOMAIN eff.sending))
                             \o FailedEvents(SetToSeq(DOMAIN eff.receiving)),
                !.sending = MarkFailed(@), !.receiving = MarkFailed(@)]

handleDataChannelCloseKeepsQueue(eff) ==
    [failAllTransfers(eff) EXCEPT !.sending = EmptyMap, !.receiving = EmptyMap,
                                  !.active = 0]

handleDataChannelClose(eff) ==
    [failAllTransfers(eff) EXCEPT !.sending = EmptyMap, !.receiving = EmptyMap,
                                  !.queue = <<>>, !.active = 0]

\* cancelTransfer(fileId)
cancelTransfer(eff, fileId) ==
    LET e1 == IF fileId \in DOMAIN eff.sending
              THEN [eff EXCEPT !.sending = FnDelete(@, fileId),
                               !.events = Append(@, Event("cancelled", fileId, Undefined))]
              ELSE eff
        e2 == IF fileId \in DOMAIN eff.receiving
              THEN [e1 EXCEPT !.receiving = FnDelete(@, fileId),
                              !.events = Append(@, Event("cancelled", fileId, Undefined))]
              ELSE e1
    IN  processQueueOf([e2 EXCEPT !.queue = RemoveFirstFromQueue(@, fileId),
                                  !.active = Max(0, @ - 1)])

\* sendingFiles.get(fileId) || receivingFiles.get(fileId): the table that answers
TableOf(eff, fileId) ==
    IF fileId \in DOMAIN eff.sending THEN "sending"
    ELSE IF fileId \in DOMAIN eff.receiving THEN "receiving" ELSE Undefined

StatusIn(eff, fileId) ==
    IF TableOf(eff, fileId) = "sending" THEN eff.sending[fileId].status
    ELSE IF TableOf(eff, fileId) = "receiving" THEN eff.receiving[fileId].status
    ELSE Undefined

SetStatus(eff, fileId, status) ==
    IF TableOf(eff, fileId) = "sending" THEN [eff EXCEPT !.sending[fileId].status = status]
    ELSE [eff EXCEPT !.receiving[fileId].status = status]

\* pauseTransfer(fileId)
pauseTransfer(eff, fileId) ==
    IF StatusIn(eff, fileId) = "transferring" THEN SetStatus(eff, fileId, "paused") ELSE eff

\* resumeTransfer(fileId)
resumeTransfer(eff, fileId) ==
    IF StatusIn(eff, fileId) = "paused"
    THEN LET e1 == SetStatus(eff, fileId, "transferring") IN
         IF fileId \in DOMAIN e1.sending
         THEN processQueueOf([e1 EXCEPT !.queue = Append(@, fileId)])
         ELSE e1
    ELSE eff

\* number of events of a kind for a file among the events of a step
CountEvents(events, kind, f) ==
    Cardinality({i \in 1..Len(events) : events[i].kind = kind /\ events[i].fileId = f})

\* the file of the last completed event for f among the events of a step
LastCompleted(events, f, before) ==
    LET idx == {i \in 1..Len(events) : events[i].kind = "completed" /\ events[i].fileId = f}
    IN  IF idx = {} THEN before
        ELSE events[CHOOSE i \in idx : \A j \in idx : j <= i].file

\* what the last step of a manager was; present and marked are, for a close of
\* the channel, the ids in the two tables when it closed and the ids whose entry
\* the handler set to FAILED; thrown and taken are, for a sendFile, whether it
\* rejected and how many active slots it took
Step(op, m, fileId) ==
    [op |-> op, m |-> m, fileId |-> fileId, out |-> <<>>, events |-> <<>>,
     buffered |-> bufferedAmount[m], known |-> FALSE, size |-> 0, chunks |-> <<>>,
     total |-> 0, corrupt |-> FALSE, reacted |-> FALSE, queuedBefore |-> FALSE,
     present |-> {}, marked |-> {}, thrown |-> FALSE, taken |-> 0]

NoStep ==
    [op |-> "none", m |-> "A", fileId |-> Undefined, out |-> <<>>, events |-> <<>>,
     buffered |-> 0, known |-> FALSE, size |-> 0, chunks |-> <<>>,
     total |-> 0, corrupt |-> FALSE, reacted |-> FALSE, queuedBefore |-> FALSE,
     present |-> {}, marked |-> {}, thrown |-> FALSE, taken |-> 0]

\* a step of manager m takes effect: its tables, its events, and its frames,
\* which a peer manager finds on its end of the channel
Commit(m, eff, inbound, last) ==
    /\ sendingFiles' = [sendingFiles EXCEPT ![m] = eff.sending]
    /\ receivingFiles' = [receivingFiles EXCEPT ![m] = eff.receiving]
    /\ transferQueue' = [transferQueue EXCEPT ![m] = eff.queue]
    /\ activeTransfers' = [activeTransfers EXCEPT ![m] = eff.active]
    /\ emitted' = [emitted EXCEPT ![m] =
           [k \in DOMAIN @ |-> [f \in AllFileIds |-> @[k][f] + CountEvents(eff.events, k, f)]]]
    /\ completedFile' = [completedFile EXCEPT ![m] =
           [f \in AllFileIds |-> LastCompleted(eff.events, f, @[f])]]
    /\ chan' = [x \in Mgrs |-> IF x = m THEN inbound
                               ELSE IF closedPair THEN chan[x] \o eff.out ELSE chan[x]]
    /\ ftLast' = [last EXCEPT !.out = eff.out,
                              !.events = eff.events,
                              !.reacted = \/ eff.out # <<>>
                                          \/ eff.events # <<>>
                                          \/ eff.receiving # receivingFiles[m]]

FtIdle ==
    /\ dataChannel = [m \in Mgrs |-> "null"]
    /\ bufferedAmount = [m \in Mgrs |-> 0]
    /\ sendingFiles = [m \in Mgrs |-> EmptyMap]
    /\ receivingFiles = [m \in Mgrs |-> EmptyMap]
    /\ transferQueue = [m \in Mgrs |-> <<>>]
    /\ activeTransfers = [m \in Mgrs |-> 0]
    /\ preparing = [m \in Mgrs |-> {}]
    /\ chan = [m \in Mgrs |-> <<>>]
    /\ emitted = [m \in Mgrs |-> NoEvents]
    /\ completedFile = [m \in Mgrs |-> [f \in AllFileIds |-> <<>>]]
    /\ origFile = EmptyMap
    /\ lastHeader = [m \in Mgrs |-> <<>>]
    /\ corruptSeen = [m \in Mgrs |-> {}]
    /\ ftLast = NoStep
    /\ injected = 0
    /\ announced = {}
    /\ formerOpen = [m \in Mgrs |-> FALSE]

\* components that are not under study: no file transfer is configured
FtInit ==
    /\ config = [chunkSize |-> 2, maxConcurrentTransfers |-> DEFAULT_MAX_CONCURRENT,
                 enableChecksum |-> TRUE]
    /\ closedPair = FALSE
    /\ FtIdle

\* one manager whose peer is arbitrary
TransferInit ==
    /\ config \in [chunkSize : ChunkSizes, maxConcurrentTransfers : ConcurrencyLimits,
                   enableChecksum : {TRUE}]
    /\ closedPair = FALSE
    /\ FtIdle

\* what no step on the manager's current channel changes
settingsUnchanged == UNCHANGED <<config, closedPair, formerOpen>>

\* setDataChannel(dataChannel) with a channel that is open
SetDataChannel(m) ==
    /\ m \in Managers
    /\ dataChannel[m] = "null"
    /\ dataChannel' = [dataChannel EXCEPT ![m] = "open"]
    /\ bufferedAmount' = [bufferedAmount EXCEPT ![m] = 0]
    /\ chan' = [chan EXCEPT ![m] = <<>>]
    /\ lastHeader' = [lastHeader EXCEPT ![m] = <<>>]
    /\ ftLast' = Step("setDataChannel", m, Undefined)
    /\ UNCHANGED <<sendingFiles, receivingFiles, transferQueue, activeTransfers, preparing,
                   emitted, completedFile, origFile, corruptSeen, injected, announced>>
    /\ settingsUnchanged
    /\ UNCHANGED notFt

\* the channel's bufferedAmount moves as the transport drains it and as the
\* connection's other senders fill it
BufferedAmountChange(m, amount) ==
    /\ m \in Managers
    /\ channelOpen(m)
    /\ amount # bufferedAmount[m]
    /\ bufferedAmount' = [bufferedAmount EXCEPT ![m] = amount]
    /\ UNCHANGED <<dataChannel, sendingFiles, receivingFiles, transferQueue, activeTransfers,
                   preparing, chan, emitted, completedFile, origFile, lastHeader,
                   corruptSeen, ftLast, injected, announced>>
    /\ settingsUnchanged
    /\ UNCHANGED notFt

\* sendFile(file) up to its first await: the entry is created in state preparing
SendFileBegin(m, fileId, size) ==
    /\ m \in Managers
    /\ fileId \in LocalFileIds(m)
    /\ fileId \notin DOMAIN origFile
    /\ origFile' = FnSet(origFile, fileId, FileBytes(size))
    /\ preparing' = [preparing EXCEPT ![m] = @ \cup {fileId}]
    /\ sendingFiles' = [sendingFiles EXCEPT ![m] = FnSet(@, fileId, NewSendingFile(size))]
    /\ ftLast' = [Step("sendFileBegin", m, fileId) EXCEPT
                      !.size = size, !.total = Ceil(size, config.chunkSize)]
    /\ UNCHANGED <<dataChannel, bufferedAmount, receivingFiles, transferQueue,
                   activeTransfers, chan, emitted, completedFile, lastHeader, corruptSeen,
                   injected, announced>>
    /\ settingsUnchanged
    /\ UNCHANGED notFt

\* sendFile(file) from the end of prepareFileChunks: the chunks are assigned,
\* file-info is sent, the id is queued and the queue processed; if the send of
\* file-info throws, the entry is deleted and the call rejects
SendFileFinish(m, fileId) ==
    /\ m \in Managers
    /\ fileId \in preparing[m]
    /\ preparing' = [preparing EXCEPT ![m] = @ \ {fileId}]
    /\ LET bytes == origFile[fileId]
           chunks == prepareFileChunks(fileId, bytes, Ceil(Len(bytes), config.chunkSize))
           transferFile == [NewSendingFile(Len(bytes)) EXCEPT !.chunks = chunks]
           e0 == Effect(m)
           e1 == IF fileId \in DOMAIN e0.sending
                 THEN [e0 EXCEPT !.sending[fileId].chunks = chunks] ELSE e0
           e2 == sendControlMessage(m, e1, FileInfoMessage(fileId, transferFile))
           e3 == IF e2.thrown THEN [e2 EXCEPT !.sending = FnDelete(@, fileId)]
                 ELSE processQueueOf([e2 EXCEPT !.queue = Append(@, fileId)])
       IN  Commit(m, e3, chan[m],
                  [Step("sendFile", m, fileId) EXCEPT
                       !.chunks = chunks, !.size = Len(bytes),
                       !.total = transferFile.totalChunks,
                       !.known = fileId \in DOMAIN e0.sending,
                       !.thrown = e2.thrown,
                       !.taken = e3.active - e0.active])
    /\ UNCHANGED <<dataChannel, bufferedAmount, origFile, lastHeader, corruptSeen,
                   injected, announced>>
    /\ settingsUnchanged
    /\ UNCHANGED notFt

\* the checksum a header announces differs from that of the body that follows
Corrupt(m, frame) ==
    /\ frame.kind = "binary"
    /\ config.enableChecksum
    /\ lastHeader[m] # <<>>
    /\ "checksum" \in DOMAIN lastHeader[m][1]
    /\ lastHeader[m][1].checksum # calculateChecksum(frame.data)

\* dataChannel.onmessage with the given frame; inbound is what stays on the channel
OnMessage(m, frame, inbound) ==
    LET op == IF frame.kind = "string" THEN frame.json.type ELSE "handleFileChunk"
        fileId == IF frame.kind = "string" THEN frame.json.fileId
                  ELSE IF lastHeader[m] = <<>> THEN Undefined
                  ELSE lastHeader[m][1].fileId
        eff == handleDataChannelMessage(m, Effect(m), frame)
    IN  /\ Commit(m, eff, inbound,
                  [Step(op, m, fileId) EXCEPT
                       !.corrupt = Corrupt(m, frame),
                       !.known = fileId \in DOMAIN sendingFiles[m]
                                 \/ fileId \in DOMAIN receivingFiles[m],
                       !.chunks = IF fileId \in DOMAIN receivingFiles[m]
                                  THEN receivingFiles[m][fileId].receivedChunks
                                  ELSE <<>>,
                       !.total = IF fileId \in DOMAIN receivingFiles[m]
                                 THEN receivingFiles[m][fileId].totalChunks ELSE 0])
        /\ lastHeader' = [lastHeader EXCEPT ![m] =
               IF frame.kind = "string" /\ frame.json.type = "chunk-header"
               THEN <<frame.json>> ELSE @]
        /\ corruptSeen' = [corruptSeen EXCEPT ![m] =
               IF Corrupt(m, frame) THEN @ \cup {lastHeader[m][1].fileId} ELSE @]

\* the next frame the peer manager sent is delivered
DataChannelMessage(m) ==
    /\ m \in Managers
    /\ closedPair
    /\ channelOpen(m)
    /\ chan[m] # <<>>
    /\ OnMessage(m, Head(chan[m]), Tail(chan[m]))
    /\ UNCHANGED <<dataChannel, bufferedAmount, preparing, origFile, injected, announced>>
    /\ settingsUnchanged
    /\ UNCHANGED notFt

\* dataChannel.onclose
DataChannelClose(m) ==
    /\ m \in Managers
    /\ channelOpen(m)
    /\ dataChannel' = [dataChannel EXCEPT ![m] = "closed"]
    /\ Commit(m, handleDataChannelClose(Effect(m)), <<>>,
              [Step("close", m, Undefined) EXCEPT
                   !.present = DOMAIN sendingFiles[m] \cup DOMAIN receivingFiles[m],
                   !.marked = LET e == failAllTransfers(Effect(m)) IN
                              {f \in DOMAIN e.sending : e.sending[f].status = "failed"}
                              \cup {f \in DOMAIN e.receiving :
                                        e.receiving[f].status = "failed"}])
    /\ UNCHANGED <<bufferedAmount, preparing, origFile, lastHeader, corruptSeen,
                   injected, announced>>
    /\ settingsUnchanged
    /\ UNCHANGED notFt

\* cancelTransfer(fileId); a call that finds nothing to change is not a step
CancelTransfer(m, fileId) ==
    /\ m \in Managers
    /\ cancelTransfer(Effect(m), fileId) # Effect(m)
    /\ Commit(m, cancelTransfer(Effect(m), fileId), chan[m],
              [Step("cancelTransfer", m, fileId) EXCEPT
                   !.known = fileId \in DOMAIN sendingFiles[m]
                             \/ fileId \in DOMAIN receivingFiles[m],
                   !.queuedBefore = InQueue(transferQueue[m], fileId)])
    /\ UNCHANGED <<dataChannel, bufferedAmount, preparing, origFile, lastHeader,
                   corruptSeen, injected, announced>>
    /\ settingsUnchanged
    /\ UNCHANGED notFt

\* pauseTransfer(fileId); a call that finds nothing to change is not a step
PauseTransfer(m, fileId) ==
    /\ m \in Managers
    /\ pauseTransfer(Effect(m), fileId) # Effect(m)
    /\ Commit(m, pauseTransfer(Effect(m), fileId), chan[m],
              [Step("pauseTransfer", m, fileId) EXCEPT
                   !.known = StatusIn(Effect(m), fileId) = "transferring"])
    /\ UNCHANGED <<dataChannel, bufferedAmount, preparing, origFile, lastHeader,
                   corruptSeen, injected, announced>>
    /\ settingsUnchanged
    /\ UNCHANGED notFt

\* resumeTransfer(fileId); a call that finds nothing to change is not a step
ResumeTransfer(m, fileId) ==
    /\ m \in Managers
    /\ resumeTransfer(Effect(m), fileId) # Effect(m)
    /\ Len(transferQueue[m]) < MaxQueue
    /\ Commit(m, resumeTransfer(Effect(m), fileId), chan[m],
              [Step("resumeTransfer", m, fileId) EXCEPT
                   !.known = StatusIn(Effect(m), fileId) = "paused"])
    /\ UNCHANGED <<dataChannel, bufferedAmount, preparing, origFile, lastHeader,
                   corruptSeen, injected, announced>>
    /\ settingsUnchanged
    /\ UNCHANGED notFt

\* frames an arbitrary peer may put on the channel
PeerBodies == {<<1, 2>>, <<1, 7>>}

\* the ids of this manager's files that the peer's requests and acks name
PeerAddressedIds == {"f1"}

PeerChunk(fileId, data, enableChecksum) ==
    LET chunk == [id |-> <<fileId, 0>>, index |-> 0, data |-> data, size |-> Len(data)]
    IN  IF enableChecksum THEN WithChecksum(chunk, calculateChecksum(data)) ELSE chunk

PeerFramesFor(enableChecksum, alreadyAnnounced) ==
    {Control([type |-> "file-info", fileId |-> f, fileSize |-> 2,
                      totalChunks |-> 1, chunkSize |-> 2,
                      enableChecksum |-> enableChecksum]) :
         f \in PeerFileIds \ alreadyAnnounced}
    \cup {Control(ChunkRequestMessage(f, i)) : f \in PeerAddressedIds, i \in {0, 1}}
    \cup {Control(ChunkAckMessage(f, i)) : f \in PeerAddressedIds, i \in {0, 1}}
    \cup {Control(TransferCompleteMessage(f)) : f \in PeerFileIds}
    \cup {Control(TransferErrorMessage(f)) : f \in PeerFileIds \cup PeerAddressedIds}
    \cup {Control(ChunkHeaderMessage(f, PeerChunk(f, <<1, 2>>, enableChecksum))) :
              f \in PeerFileIds}
    \cup {Binary(d) : d \in PeerBodies}

AllPeerFrames == PeerFramesFor(TRUE, {}) \cup PeerFramesFor(FALSE, {})

PeerFrames == PeerFramesFor(config.enableChecksum, announced)

\* a frame of the arbitrary peer is delivered
PeerMessage(frame) ==
    /\ ~closedPair
    /\ frame \in PeerFrames
    /\ channelOpen("A")
    /\ injected < MaxInjected
    /\ injected' = injected + 1
    /\ announced' = IF frame.kind = "string" /\ frame.json.type = "file-info"
                    THEN announced \cup {frame.json.fileId} ELSE announced
    /\ OnMessage("A", frame, chan["A"])
    /\ UNCHANGED <<dataChannel, bufferedAmount, preparing, origFile>>
    /\ settingsUnchanged
    /\ UNCHANGED notFt

\* setDataChannel(dataChannel) while a channel is attached: the manager refers to
\* the new channel; the handlers set on the old one stay
ReplaceDataChannel(m) ==
    /\ m \in Managers
    /\ dataChannel[m] # "null"
    /\ dataChannel' = [dataChannel EXCEPT ![m] = "open"]
    /\ formerOpen' = [formerOpen EXCEPT ![m] = @ \/ channelOpen(m)]
    /\ bufferedAmount' = [bufferedAmount EXCEPT ![m] = 0]
    /\ chan' = [chan EXCEPT ![m] = <<>>]
    /\ lastHeader' = [lastHeader EXCEPT ![m] = <<>>]
    /\ ftLast' = Step("setDataChannel", m, Undefined)
    /\ UNCHANGED <<sendingFiles, receivingFiles, transferQueue, activeTransfers, preparing,
                   emitted, completedFile, origFile, corruptSeen, injected, announced>>
    /\ UNCHANGED <<config, closedPair>>
    /\ UNCHANGED notFt

\* the forEach loops of destroy: cancelTransfer for every id of a table
RECURSIVE cancelAll(_, _)
cancelAll(eff, idSeq) ==
    IF idSeq = <<>> THEN eff
    ELSE cancelAll(cancelTransfer(eff, Head(idSeq)), Tail(idSeq))

\* destroy() on the tables: every transfer cancelled, queue and active count reset
destroy(eff) ==
    LET e1 == cancelAll(eff, SetToSeq(DOMAIN eff.sending))
        e2 == cancelAll(e1, SetToSeq(DOMAIN e1.receiving))
    IN  [e2 EXCEPT !.queue = <<>>, !.active = 0]

\* FileTransferManager.destroy(): dataChannel = null; the channel itself is not
\* closed and keeps the handlers
Destroy(m) ==
    /\ m \in Managers
    /\ dataChannel[m] # "null"
    /\ dataChannel' = [dataChannel EXCEPT ![m] = "null"]
    /\ formerOpen' = [formerOpen EXCEPT ![m] = @ \/ channelOpen(m)]
    /\ Commit(m, destroy(Effect(m)), chan[m],
              [Step("destroy", m, Undefined) EXCEPT
                   !.present = DOMAIN sendingFiles[m] \cup DOMAIN receivingFiles[m]])
    /\ UNCHANGED <<bufferedAmount, preparing, origFile, lastHeader, corruptSeen,
                   injected, announced>>
    /\ UNCHANGED <<config, closedPair>>
    /\ UNCHANGED notFt

\* control frames a former channel may still deliver
FormerChannelFrames ==
    {frame \in AllPeerFrames : frame.kind = "string" /\ frame.json.type # "chunk-header"}

\* onmessage of a channel the manager no longer refers to
FormerChannelMessage(frame) ==
    /\ ~closedPair
    /\ formerOpen["A"]
    /\ frame \in PeerFrames
    /\ injected < MaxInjected
    /\ injected' = injected + 1
    /\ announced' = IF frame.json.type = "file-info"
                    THEN announced \cup {frame.json.fileId} ELSE announced
    /\ Commit("A", handleDataChannelMessage("A", Effect("A"), frame), chan["A"],
              [Step("formerChannelMessage", "A", frame.json.fileId) EXCEPT
                   !.known = frame.json.fileId \in DOMAIN sendingFiles["A"]
                             \/ frame.json.fileId \in DOMAIN receivingFiles["A"],
                   !.present = DOMAIN sendingFiles["A"] \cup DOMAIN receivingFiles["A"]])
    /\ UNCHANGED <<dataChannel, bufferedAmount, preparing, origFile, lastHeader,
                   corruptSeen, formerOpen>>
    /\ UNCHANGED <<config, closedPair>>
    /\ UNCHANGED notFt

\* onclose of a channel the manager no longer refers to
FormerChannelClose(m) ==
    /\ m \in Managers
    /\ formerOpen[m]
    /\ formerOpen' = [formerOpen EXCEPT ![m] = FALSE]
    /\ Commit(m, handleDataChannelClose(Effect(m)), chan[m],
              [Step("formerChannelClose", m, Undefined) EXCEPT
                   !.present = DOMAIN sendingFiles[m] \cup DOMAIN receivingFiles[m]])
    /\ UNCHANGED <<dataChannel, bufferedAmount, preparing, origFile, lastHeader,
                   corruptSeen, injected, announced>>
    /\ UNCHANGED <<config, closedPair>>
    /\ UNCHANGED notFt

FileSizes == 0..MaxFileSize

\* sizes of the files sent to an arbitrary peer: of several chunks
TransferFileSizes == {MaxFileSize}

TransferIds == LocalFileIds("A") \cup PeerFileIds

TransferNext ==
    \/ \E m \in Mgrs : SetDataChannel(m)
    \/ \E m \in Mgrs, amount \in BufferedAmounts : BufferedAmountChange(m, amount)
    \/ \E m \in Mgrs, fileId \in AllFileIds, size \in TransferFileSizes : SendFileBegin(m, fileId, size)
    \/ \E m \in Mgrs, fileId \in AllFileIds : SendFileFinish(m, fileId)
    \/ \E m \in Mgrs : DataChannelClose(m)
    \/ \E m \in Mgrs, fileId \in TransferIds : CancelTransfer(m, fileId)
    \/ \E m \in Mgrs, fileId \in TransferIds : PauseTransfer(m, fileId)
    \/ \E m \in Mgrs, fileId \in TransferIds : ResumeTransfer(m, fileId)
    \/ \E frame \in AllPeerFrames : PeerMessage(frame)

\* a sender and a receiver manager at the two ends of an open channel
PairInit ==
    /\ config \in [chunkSize : SmallChunkSizes, maxConcurrentTransfers : ConcurrencyLimits,
                   enableChecksum : BOOLEAN]
    /\ closedPair = TRUE
    /\ dataChannel = [m \in Mgrs |-> "open"]
    /\ bufferedAmount = [m \in Mgrs |-> 0]
    /\ sendingFiles = [m \in Mgrs |-> EmptyMap]
    /\ receivingFiles = [m \in Mgrs |-> EmptyMap]
    /\ transferQueue = [m \in Mgrs |-> <<>>]
    /\ activeTransfers = [m \in Mgrs |-> 0]
    /\ preparing = [m \in Mgrs |-> {}]
    /\ chan = [m \in Mgrs |-> <<>>]
    /\ emitted = [m \in Mgrs |-> NoEvents]
    /\ completedFile = [m \in Mgrs |-> [f \in AllFileIds |-> <<>>]]
    /\ origFile = EmptyMap
    /\ lastHeader = [m \in Mgrs |-> <<>>]
    /\ corruptSeen = [m \in Mgrs |-> {}]
    /\ ftLast = NoStep
    /\ injected = 0
    /\ announced = {}
    /\ formerOpen = [m \in Mgrs |-> FALSE]

PairNext ==
    \/ \E m \in Mgrs, fileId \in AllFileIds, size \in FileSizes : SendFileBegin(m, fileId, size)
    \/ \E m \in Mgrs, fileId \in AllFileIds : SendFileFinish(m, fileId)
    \/ \E m \in Mgrs : DataChannelMessage(m)

\* a receiver entry that holds every chunk of a file, stored in some order of
\* arrival, and the sender's transfer-complete on the channel

ArrivalOrders(n) == {q \in [1..n -> 1..n] : \A i, j \in 1..n : i # j => q[i] # q[j]}

ReassemblyInit ==
    /\ config \in [chunkSize : SmallChunkSizes,
                   maxConcurrentTransfers : {DEFAULT_MAX_CONCURRENT},
                   enableChecksum : {TRUE}]
    /\ closedPair = TRUE
    /\ dataChannel = [m \in Mgrs |-> "open"]
    /\ bufferedAmount = [m \in Mgrs |-> 0]
    /\ sendingFiles = [m \in Mgrs |-> EmptyMap]
    /\ transferQueue = [m \in Mgrs |-> <<>>]
    /\ activeTransfers = [m \in Mgrs |-> 0]
    /\ preparing = [m \in Mgrs |-> {}]
    /\ emitted = [m \in Mgrs |-> NoEvents]
    /\ completedFile = [m \in Mgrs |-> [f \in AllFileIds |-> <<>>]]
    /\ lastHeader = [m \in Mgrs |-> <<>>]
    /\ corruptSeen = [m \in Mgrs |-> {}]
    /\ ftLast = NoStep
    /\ injected = 0
    /\ announced = {}
    /\ formerOpen = [m \in Mgrs |-> FALSE]
    /\ \E size \in 1..MaxReassemblySize :
         LET total == Ceil(size, config.chunkSize)
             chunks == prepareFileChunks("f1", FileBytes(size), total)
         IN  \E order \in ArrivalOrders(total) :
               /\ origFile = FnSet(EmptyMap, "f1", FileBytes(size))
               /\ receivingFiles =
                      [m \in Mgrs |->
                          IF m = "B"
                          THEN FnSet(EmptyMap, "f1",
                                   [NewReceivingFile([totalChunks |-> total]) EXCEPT
                                        !.receivedChunks = [i \in 1..total |-> chunks[order[i]]]])
                          ELSE EmptyMap]
               /\ chan = [m \in Mgrs |->
                             IF m = "B" THEN <<Control(TransferCompleteMessage("f1"))>>
                             ELSE <<>>]

ReassemblyNext == \E m \in Mgrs : DataChannelMessage(m)

(***************************************************************************)
(* Relay claims                                                            *)
(***************************************************************************)
SendsTo(c) == SelectSeq(sent, LAMBDA s : s.ws = c)

JoinNotice(from, to, roomId) ==
    [type |-> MessageTypeJOIN, from |-> from, to |-> to, roomId |-> roomId]

\* the last operation ran RoomService.joinRoom (directly or through a 'join' frame)
JoinCalled ==
    \/ lastOp.op = "joinRoom"
    \/ lastOp.op = "handleMessage" /\ Field(lastOp.message, "type") = MessageTypeJOIN

ExistingOthers == {lastOp.before[i] : i \in DOMAIN lastOp.before} \ {lastOp.client}

TotalDelivered == Len(inbox["u1"]) + Len(inbox["u2"]) + Len(inbox["u3"])

\* C1: joinRoom(roomId, c) into a room with N members other than c sends exactly N
\* join messages to c, one from each existing member, exactly one join message
\* from c to each existing member, and nothing to anyone else; when these are the
\* first notifications ever sent and N = 1 (u1 joined, then u2), each of the two
\* has received exactly one join naming the other.
C1_JoinPairwise ==
    JoinCalled =>
        LET c == lastOp.client
            r == lastOp.roomId
            others == ExistingOthers
        IN  /\ Len(SendsTo(c)) = Cardinality(others)
            /\ \A o \in others :
                  /\ Len(SelectSeq(sent, LAMBDA s : s = [ws |-> c, data |-> JoinNotice(o, c, r)])) = 1
                  /\ SendsTo(o) = << [ws |-> o, data |-> JoinNotice(c, o, r)] >>
            /\ \A x \in ClientIds \ (others \cup {c}) : SendsTo(x) = <<>>
            /\ (Cardinality(others) = 1 /\ TotalDelivered = Len(sent)) =>
                  \A o \in others : /\ inbox[o] = << JoinNotice(c, o, r) >>
                                    /\ inbox[c] = << JoinNotice(o, c, r) >>

C1_Witness ==
    /\ lastOp.op = "joinRoom"
    /\ lastOp.client \notin ExistingOthers
    /\ Cardinality(ExistingOthers) = 2
    /\ Len(sent) = 4

\* the last operation handled an offer, answer or ice-candidate frame built by
\* SignalingManager.sendOffer / sendAnswer / sendIceCandidate whose addressee is
\* registered with the relay
RelayedKinds == {"offer", "answer", "ice-candidate"}

PayloadKey(type) == IF type = "ice-candidate" THEN "candidate" ELSE type

AddressedFrameHandled ==
    /\ lastOp.op = "handleMessage"
    /\ Field(lastOp.message, "type") \in RelayedKinds
    /\ Field(lastOp.message, "peerId") \in lastOp.registered

\* C2: an offer (answer, ice-candidate) that connected client u1 addresses to a
\* registered client u2 is delivered to u2 exactly once, with the same type and
\* the same payload, marked from = u1.
C2_OfferDelivered ==
    AddressedFrameHandled =>
        LET m == lastOp.message
            k == PayloadKey(m.type)
        IN  /\ Len(SendsTo(m.peerId)) = 1
            /\ Field(SendsTo(m.peerId)[1].data, "type") = m.type
            /\ Field(SendsTo(m.peerId)[1].data, k) = m[k]
            /\ Field(SendsTo(m.peerId)[1].data, "from") = lastOp.client

\* C3: hasRoom(id) is true exactly when room id has at least one member; a join
\* leaves the joined room existing, and a leaveRoom that removes the last member
\* of a room deletes that room.
C3_HasRoomIffMembers ==
    /\ \A r \in RoomIds : hasRoom(r) <=> Len(getRoomClients(r)) >= 1
    /\ (lastOp.op = "joinRoom" => hasRoom(lastOp.roomId))
    /\ (lastOp.op = "leaveRoom" /\ lastOp.before = << lastOp.client >>)
          => ~hasRoom(lastOp.roomId)

C3_Witness ==
    /\ lastOp.op = "leaveRoom"
    /\ lastOp.before = << lastOp.client >>
    /\ ~hasRoom(lastOp.roomId)
    /\ opCount >= 2

(***************************************************************************)
(* Peer connections: WebRTCManager                                         *)
(***************************************************************************)
MaxConnections == 2

RtcPeerIds == {"p", "q"}
\* the peers that negotiate and send media here; the others only get a connection
\* and a locally created channel
NegotiatingPeers == {"p"}
Candidates == {"c1"}

\* RTCPeerConnectionState values a connectionstatechange event can report
ReportedStates == {"connected", "failed", "closed"}

\* a new RTCPeerConnection made for peerId: channel = its data channel (made by
\* createDataChannel or delivered by its datachannel event), tracks = its remote
\* tracks; closeEvent = a connectionstatechange for its close() is still due
\* (browsers differ in whether close() is reported at all); early = the candidates
\* handed to it while it had no remote description
NewConnection(peerId) ==
    [peerId |-> peerId, connectionState |-> "new", remoteDescription |-> FALSE, applied |-> {}, early |-> {}, channel |-> "none",
     tracks |-> "none", closeEvent |-> FALSE]

\* one step of the WebRTCManager: the method or event, the peer id it is about
\* (Undefined when it is about every peer), the connection object concerned, the
\* state reported, whether the method succeeded, the events it emitted, and
\* entry = the connection the table held for the peer id when the step began
RtcStep(op, peerId, connection, state, ok, events) ==
    [op |-> op, peerId |-> peerId, connection |-> connection, state |-> state,
     ok |-> ok, events |-> events,
     entry |-> IF peerId \in DOMAIN peers THEN peers[peerId].connection ELSE 0]

RtcInit ==
    /\ peers = EmptyMap
    /\ connections = <<>>
    /\ rtcLast = RtcStep("init", Undefined, 0, "new", TRUE, <<>>)
    /\ fileTransfers = EmptyMap
    /\ peerChannel = "open"
    /\ channelBuffered = 0
    /\ channelSent = <<>>
    /\ otherSends = 0
    /\ sendLast = [op |-> "init", transferId |-> Undefined, result |-> Undefined]

\* RTCDataChannel.close() / the channel of a closed connection
ClosedChannel(readyState) == IF readyState = "none" THEN "none" ELSE "closed"

\* MediaStreamTrack.stop() / the remote tracks of a closed connection
EndedTracks(tracks) == IF tracks = "none" THEN "none" ELSE "ended"

CloseEveryConnection(conns, i) ==
    [j \in 1..Len(conns) |->
        [conns[j] EXCEPT !.connectionState = "closed",
                         !.channel = ClosedChannel(@),
                         !.tracks = EndedTracks(@)]]

\* removePeer on a Peer whose connection is object i: peer.dataChannel.close(),
\* peer.connection.close() (which closes every channel of the connection and ends
\* its remote tracks), and stop() on the tracks of peer.mediaStream
CloseConnection(conns, i) ==
    [conns EXCEPT ![i].connectionState = "closed",
                  ![i].channel = ClosedChannel(@),
                  ![i].tracks = EndedTracks(@),
                  ![i].closeEvent = (conns[i].connectionState # "closed")]

PeersKept(table, peerId) == table

\* this.peers.delete(peerId)
PeersAfterRemove(table, peerId) == FnDelete(table, peerId)

\* WebRTCManager.removePeer(peerId) as a change of <<peers, connections>>
removePeer(peerId) ==
    IF peerId \in DOMAIN peers
    THEN /\ connections' = CloseConnection(connections, peers[peerId].connection)
         /\ peers' = PeersAfterRemove(peers, peerId)
    ELSE UNCHANGED <<peers, connections>>

\* WebRTCManager.createPeerConnection(peerId): peers.set replaces an earlier entry
\* of the same id, whose connection object stays as it is
CreatePeerConnection(peerId) ==
    /\ Len(connections) < MaxConnections
    /\ connections' = Append(connections, NewConnection(peerId))
    /\ peers' = FnSet(peers, peerId, [connection |-> Len(connections) + 1,
                                      dataChannel |-> FALSE, mediaStream |-> FALSE])
    /\ rtcLast' = RtcStep("createPeerConnection", peerId, Len(connections) + 1, "new",
                          TRUE, <<>>)
    /\ UNCHANGED notRtc

\* WebRTCManager.createDataChannel(peerId): connection.createDataChannel throws on
\* a closed connection
CreateDataChannel(peerId) ==
    /\ IF peerId \notin DOMAIN peers
       THEN /\ rtcLast' = RtcStep("createDataChannel", peerId, 0, "new", FALSE, <<"error">>)
            /\ UNCHANGED <<peers, connections>>
       ELSE LET i == peers[peerId].connection IN
            IF connections[i].connectionState = "closed"
            THEN /\ rtcLast' = RtcStep("createDataChannel", peerId, i, "new", FALSE,
                                       <<"error">>)
                 /\ UNCHANGED <<peers, connections>>
            ELSE /\ connections[i].channel = "none"
                 /\ connections' = [connections EXCEPT ![i].channel = "open"]
                 /\ peers' = [peers EXCEPT ![peerId].dataChannel = TRUE]
                 /\ rtcLast' = RtcStep("createDataChannel", peerId, i, "new", TRUE, <<>>)
    /\ UNCHANGED notRtc

\* connection.ondatachannel of connection i: setupDataChannel(event.channel, peerId);
\* the channel is not stored in the Peer
OnDataChannel(i) ==
    /\ i \in 1..Len(connections)
    /\ connections[i].connectionState # "closed"
    /\ connections[i].peerId \in NegotiatingPeers
    /\ connections[i].channel = "none"
    /\ connections' = [connections EXCEPT ![i].channel = "open"]
    /\ rtcLast' = RtcStep("datachannel", connections[i].peerId, i, "new", TRUE, <<>>)
    /\ UNCHANGED peers
    /\ UNCHANGED notRtc

\* connection.ontrack of connection i; withStream = event.streams[0] is present.
\* The handler writes to the Peer object it was created with, which is the entry
\* of the table only while that entry still holds connection i
OnTrack(i, withStream) ==
    /\ i \in 1..Len(connections)
    /\ connections[i].connectionState # "closed"
    /\ connections[i].peerId \in NegotiatingPeers
    /\ connections[i].tracks = "none"
    /\ connections' = [connections EXCEPT ![i].tracks = "live"]
    /\ LET peerId == connections[i].peerId IN
       /\ peers' = IF withStream /\ peerId \in DOMAIN peers /\ peers[peerId].connection = i
                   THEN [peers EXCEPT ![peerId].mediaStream = TRUE]
                   ELSE peers
       /\ rtcLast' = RtcStep("track", peerId, i, "new", TRUE,
                             IF withStream THEN <<"media-stream-received">> ELSE <<>>)
    /\ UNCHANGED notRtc

\* WebRTCManager.createOffer(peerId); accepted = the connection produced the offer
\* and took it as its local description (a closed connection never does); the
\* local description is read by nothing in the manager and is not kept here
CreateOffer(peerId, accepted) ==
    /\ IF peerId \notin DOMAIN peers
       THEN /\ ~accepted
            /\ rtcLast' = RtcStep("createOffer", peerId, 0, "new", FALSE, <<"error">>)
            /\ UNCHANGED connections
       ELSE LET i == peers[peerId].connection
                ok == accepted /\ connections[i].connectionState # "closed" IN
            /\ UNCHANGED connections
            /\ rtcLast' = RtcStep("createOffer", peerId, i, "new", ok,
                                  IF ok THEN <<>> ELSE <<"error">>)
    /\ UNCHANGED peers
    /\ UNCHANGED notRtc

\* WebRTCManager.createAnswer(peerId): the connection rejects createAnswer while it
\* has no remote description
CreateAnswer(peerId, accepted) ==
    /\ IF peerId \notin DOMAIN peers
       THEN /\ ~accepted
            /\ rtcLast' = RtcStep("createAnswer", peerId, 0, "new", FALSE, <<"error">>)
            /\ UNCHANGED connections
       ELSE LET i == peers[peerId].connection
                ok == /\ accepted
                      /\ connections[i].connectionState # "closed"
                      /\ connections[i].remoteDescription IN
            /\ UNCHANGED connections
            /\ rtcLast' = RtcStep("createAnswer", peerId, i, "new", ok,
                                  IF ok THEN <<>> ELSE <<"error">>)
    /\ UNCHANGED peers
    /\ UNCHANGED notRtc

\* WebRTCManager.setRemoteDescription(peerId, description); accepted = the
\* connection took the description. The connection runs setRemoteDescription and
\* addIceCandidate one after the other in call order, so the call is one step
SetRemoteDescription(peerId, accepted) ==
    /\ IF peerId \notin DOMAIN peers
       THEN /\ ~accepted
            /\ rtcLast' = RtcStep("setRemoteDescription", peerId, 0, "new", FALSE,
                                  <<"error">>)
            /\ UNCHANGED connections
       ELSE LET i == peers[peerId].connection
                ok == accepted /\ connections[i].connectionState # "closed" IN
            /\ connections' = [connections EXCEPT
                                  ![i].remoteDescription = IF ok THEN TRUE ELSE @]
            /\ rtcLast' = RtcStep("setRemoteDescription", peerId, i, "new", ok,
                                  IF ok THEN <<>> ELSE <<"error">>)
    /\ UNCHANGED peers
    /\ UNCHANGED notRtc

\* WebRTCManager.addIceCandidate(peerId, candidate): the call goes straight to
\* connection.addIceCandidate, which rejects while the connection has no remote
\* description or is closed; accepted = the connection took the candidate
AddIceCandidate(peerId, candidate, accepted) ==
    /\ IF peerId \notin DOMAIN peers
       THEN /\ ~accepted
            /\ rtcLast' = RtcStep("addIceCandidate", peerId, 0, "new", FALSE, <<"error">>)
            /\ UNCHANGED connections
       ELSE LET i == peers[peerId].connection
                ok == /\ accepted
                      /\ connections[i].connectionState # "closed"
                      /\ connections[i].remoteDescription IN
            /\ connections' = [connections EXCEPT
                                  ![i].applied = IF ok THEN @ \cup {candidate} ELSE @,
                                  ![i].early = IF connections[i].remoteDescription
                                               THEN @ ELSE @ \cup {candidate}]
            /\ rtcLast' = RtcStep("addIceCandidate", peerId, i, "new", ok,
                                  IF ok THEN <<>> ELSE <<"error">>)
    /\ UNCHANGED peers
    /\ UNCHANGED notRtc

\* what connection.onconnectionstatechange emits for a reported state
StateChangeEvents(state) ==
    <<"connection-state-change">> \o
    (IF state = "connected" THEN <<"peer-connected">>
     ELSE IF state \in {"closed", "failed"} THEN <<"peer-disconnected">> ELSE <<>>)

\* connection.onconnectionstatechange of connection i, which now reports `state`:
\* the handler acts on the peer id, whatever connection the table holds for it
ConnectionStateChange(i, state) ==
    /\ i \in 1..Len(connections)
    /\ IF state = "closed"
       THEN connections[i].closeEvent
       ELSE connections[i].connectionState \notin {"closed", "failed", state}
    /\ LET peerId == connections[i].peerId
           reported == [connections EXCEPT ![i].connectionState = state,
                                           ![i].closeEvent = FALSE] IN
       /\ IF state \in {"closed", "failed"} /\ peerId \in DOMAIN peers
          THEN /\ connections' = CloseConnection(reported, peers[peerId].connection)
               /\ peers' = PeersAfterRemove(peers, peerId)
          ELSE /\ connections' = reported
               /\ UNCHANGED peers
       /\ rtcLast' = RtcStep("connectionstatechange", peerId, i, state, TRUE,
                             StateChangeEvents(state))
    /\ UNCHANGED notRtc

\* WebRTCManager.removePeer(peerId), called by the application
RemovePeer(peerId) ==
    /\ peerId \in DOMAIN peers
    /\ removePeer(peerId)
    /\ rtcLast' = RtcStep("removePeer", peerId, peers[peerId].connection, "new", TRUE, <<>>)
    /\ UNCHANGED notRtc

RtcNext ==
    \/ \E peerId \in RtcPeerIds : CreatePeerConnection(peerId)
    \/ \E peerId \in RtcPeerIds : CreateDataChannel(peerId)
    \/ \E i \in 1..MaxConnections : OnDataChannel(i)
    \/ \E i \in 1..MaxConnections : \E withStream \in BOOLEAN : OnTrack(i, withStream)
    \/ \E peerId \in NegotiatingPeers : \E accepted \in BOOLEAN :
          CreateOffer(peerId, accepted)
    \/ \E peerId \in NegotiatingPeers : \E accepted \in BOOLEAN :
          CreateAnswer(peerId, accepted)
    \/ \E peerId \in NegotiatingPeers : \E accepted \in BOOLEAN :
          SetRemoteDescription(peerId, accepted)
    \/ \E peerId \in NegotiatingPeers : \E candidate \in Candidates :
       \E accepted \in BOOLEAN :
          AddIceCandidate(peerId, candidate, accepted)
    \/ \E i \in 1..MaxConnections : \E state \in ReportedStates :
          ConnectionStateChange(i, state)
    \/ \E peerId \in RtcPeerIds : RemovePeer(peerId)

(***************************************************************************)
(* Sending a file over a peer's data channel: WebRTCManager.sendFile       *)
(***************************************************************************)
MaxOtherSends == 1

SEND_CHUNK_SIZE == 16384

SendTransferIds == {"t1", "t2"}

\* File.size of the files handed to sendFile: 0, 1, 2 and 3 chunks
SendFileSizes == {0, SEND_CHUNK_SIZE, SEND_CHUNK_SIZE + 1, 2 * SEND_CHUNK_SIZE + 7232}

\* what another sender on the same channel leaves in its buffer
OtherSendSizes == {HIGH_WATER_MARK, HIGH_WATER_MARK + 1}

\* Math.ceil(file.size / chunkSize)
TotalChunks(size) == (size + SEND_CHUNK_SIZE - 1) \div SEND_CHUNK_SIZE

\* file.slice(start, end) of chunk i: its length in bytes
ChunkBytes(size, i) ==
    Min(i * SEND_CHUNK_SIZE + SEND_CHUNK_SIZE, size) - i * SEND_CHUNK_SIZE

\* the mutation of the wait: never above the limit
BufferNeverFull(amount) == FALSE

\* while (dataChannel.bufferedAmount > 16 * 1024 * 1024)
BufferFull(amount) == amount > HIGH_WATER_MARK

SendStep(op, transferId, result) ==
    [op |-> op, transferId |-> transferId, result |-> result]

\* the body of the for loop from the buffer check on, for chunk i of the transfer:
\* wait while the buffer is full, else dataChannel.send(arrayBuffer), sentChunks++,
\* and either the next iteration's read or the end of the loop; send() on a channel
\* that is not open throws, which sendFile's catch turns into an error event
sendChunk(op, transferId) ==
    LET t == fileTransfers[transferId] IN
    IF BufferFull(channelBuffered)
    THEN /\ fileTransfers' = [fileTransfers EXCEPT ![transferId].phase = "waiting"]
         /\ sendLast' = SendStep(op, transferId, "wait")
         /\ UNCHANGED <<channelBuffered, channelSent>>
    ELSE IF peerChannel # "open"
    THEN /\ fileTransfers' = [fileTransfers EXCEPT ![transferId].phase = "failed"]
         /\ sendLast' = SendStep(op, transferId, "error")
         /\ UNCHANGED <<channelBuffered, channelSent>>
    ELSE /\ channelSent' = Append(channelSent,
                [transferId |-> transferId, index |-> t.i,
                 bytes |-> ChunkBytes(t.size, t.i), buffered |-> channelBuffered])
         /\ channelBuffered' = channelBuffered + ChunkBytes(t.size, t.i)
         /\ fileTransfers' = [fileTransfers EXCEPT ![transferId] =
                [@ EXCEPT !.sentChunks = @ + 1,
                          !.i = @ + 1,
                          !.status = IF t.i + 1 < t.totalChunks
                                     THEN "transferring" ELSE "completed",
                          !.phase = IF t.i + 1 < t.totalChunks
                                    THEN "reading" ELSE "done"]]
         /\ sendLast' = SendStep(op, transferId, "sent")

\* sendFile(peerId, file): null and an error event unless the peer's channel is open;
\* otherwise the transfer is registered, its file-info message sent and
\* sendFileInChunks runs up to its first await
SendFile(transferId, size) ==
    /\ transferId \notin DOMAIN fileTransfers
    /\ transferId = "t1" \/ "t1" \in DOMAIN fileTransfers
    /\ IF peerChannel # "open"
       THEN /\ sendLast' = SendStep("sendFile", Undefined, "error")
            /\ UNCHANGED fileTransfers
       ELSE /\ fileTransfers' = FnSet(fileTransfers, transferId,
                   [size |-> size, totalChunks |-> TotalChunks(size),
                    sentChunks |-> 0, i |-> 0,
                    status |-> IF TotalChunks(size) = 0
                               THEN "completed" ELSE "transferring",
                    phase |-> IF TotalChunks(size) = 0 THEN "done" ELSE "reading"])
            /\ sendLast' = SendStep("sendFile", transferId, "started")
    /\ UNCHANGED <<peerChannel, channelBuffered, channelSent, otherSends>>
    /\ UNCHANGED notSend

\* await chunk.arrayBuffer() resolves: the loop goes on to the buffer check
ChunkRead(transferId) ==
    /\ transferId \in DOMAIN fileTransfers
    /\ fileTransfers[transferId].phase = "reading"
    /\ sendChunk("chunkRead", transferId)
    /\ UNCHANGED <<peerChannel, otherSends>>
    /\ UNCHANGED notSend

\* the 10 ms timer of the wait fires: the loop checks the buffer again
WaitTimer(transferId) ==
    /\ transferId \in DOMAIN fileTransfers
    /\ fileTransfers[transferId].phase = "waiting"
    /\ sendChunk("waitTimer", transferId)
    /\ UNCHANGED <<peerChannel, otherSends>>
    /\ UNCHANGED notSend

\* the transport drains the channel's buffer
BufferDrain ==
    /\ channelBuffered > 0
    /\ channelBuffered' = 0
    /\ sendLast' = SendStep("drain", Undefined, Undefined)
    /\ UNCHANGED <<fileTransfers, peerChannel, channelSent, otherSends>>
    /\ UNCHANGED notSend

\* another sender (sendMessage, another manager) fills the channel's buffer
OtherSend(amount) ==
    /\ otherSends < MaxOtherSends
    /\ peerChannel = "open"
    /\ otherSends' = otherSends + 1
    /\ channelBuffered' = channelBuffered + amount
    /\ sendLast' = SendStep("otherSend", Undefined, Undefined)
    /\ UNCHANGED <<fileTransfers, peerChannel, channelSent>>
    /\ UNCHANGED notSend

\* the peer's data channel closes
PeerChannelClose ==
    /\ peerChannel = "open"
    /\ peerChannel' = "closed"
    /\ sendLast' = SendStep("channelClose", Undefined, Undefined)
    /\ UNCHANGED <<fileTransfers, channelBuffered, channelSent, otherSends>>
    /\ UNCHANGED notSend

SendNext ==
    \/ \E transferId \in SendTransferIds : \E size \in SendFileSizes :
          SendFile(transferId, size)
    \/ \E transferId \in SendTransferIds : ChunkRead(transferId)
    \/ \E transferId \in SendTransferIds : WaitTimer(transferId)
    \/ BufferDrain
    \/ \E amount \in OtherSendSizes : OtherSend(amount)
    \/ PeerChannelClose

(***************************************************************************)
(* Specifications                                                          *)
(***************************************************************************)
InitRelay == RelayInit /\ SigInit /\ FtInit /\ RtcInit

SpecRelay == InitRelay /\ [][RelayNext]_vars

InitRooms == RelayInit /\ RtcInit /\ SigInit /\ FtInit

InitConnections == RelayInit /\ FtInit /\ SigInit /\ RtcInit

SpecConnections == InitConnections /\ [][ConnectionsNext]_vars

SpecRooms == InitRooms /\ [][RoomsNext]_vars

InitSignaling == SigInit /\ RelayInit /\ FtInit /\ RtcInit

SpecSignaling == InitSignaling /\ [][SigNext]_vars

\* reconnection with no call of disconnect(): timers fire and a connecting socket
\* that does not fail opens
ReconnectNext ==
    \/ \E u \in SigUserIds : Connect(u)
    \/ \E i \in 1..Len(sockets) : WsOpen(i)
    \/ \E i \in 1..Len(sockets) : WsError(i)
    \/ \E i \in 1..Len(sockets) : \E code \in CloseCodes : WsClose(i, code)
    \/ \E t \in 1..Len(timers) : ReconnectTimer(t)

InitReconnect == SigInit /\ FtInit /\ RelayInit /\ RtcInit

SpecReconnect ==
    /\ InitReconnect
    /\ [][ReconnectNext]_vars
    /\ WF_vars(\E t \in 1..Len(timers) : ReconnectTimer(t))
    /\ \A i \in 1..MaxSockets : WF_vars(i <= Len(sockets) /\ WsOpen(i))

InitSession == SigInit /\ RelayInit /\ FtInit /\ RtcInit

SpecSession == InitSession /\ [][SessionNext]_vars

InitTransfer == TransferInit /\ RelayInit /\ SigInit /\ RtcInit

SpecTransfer == InitTransfer /\ [][TransferNext]_vars

\* one manager whose channel is replaced and which is destroyed
ChannelsNext ==
    \/ \E m \in Mgrs : SetDataChannel(m)
    \/ \E m \in Mgrs : ReplaceDataChannel(m)
    \/ \E m \in Mgrs : Destroy(m)
    \/ \E m \in Mgrs, fileId \in AllFileIds, size \in TransferFileSizes : SendFileBegin(m, fileId, size)
    \/ \E m \in Mgrs, fileId \in AllFileIds : SendFileFinish(m, fileId)
    \/ \E m \in Mgrs : DataChannelClose(m)
    \/ \E frame \in AllPeerFrames : PeerMessage(frame)
    \/ \E frame \in FormerChannelFrames : FormerChannelMessage(frame)
    \/ \E m \in Mgrs : FormerChannelClose(m)

InitChannels == TransferInit /\ RtcInit /\ RelayInit /\ SigInit

SpecChannels == InitChannels /\ [][ChannelsNext]_vars

InitReassembly == ReassemblyInit /\ RelayInit /\ SigInit /\ RtcInit

SpecReassembly == InitReassembly /\ [][ReassemblyNext]_vars

InitPair == PairInit /\ RelayInit /\ SigInit /\ RtcInit

InitPeers == RtcInit /\ RelayInit /\ SigInit /\ FtInit

SpecPeers == InitPeers /\ [][RtcNext]_vars

InitSend == RtcInit /\ FtInit /\ SigInit /\ RelayInit

\* the event loop runs every ready continuation and timer, and the transport
\* keeps draining the channel
SpecSend ==
    /\ InitSend
    /\ [][SendNext]_vars
    /\ \A transferId \in SendTransferIds : WF_vars(ChunkRead(transferId))
    /\ \A transferId \in SendTransferIds : WF_vars(WaitTimer(transferId))
    /\ WF_vars(BufferDrain)

\* the channel delivers every frame, and a sendFile that was called runs on
SpecPair ==
    /\ InitPair
    /\ [][PairNext]_vars
    /\ \A m \in Mgrs : WF_vars(DataChannelMessage(m))
    /\ \A m \in Mgrs, fileId \in AllFileIds : WF_vars(SendFileFinish(m, fileId))

LeaveNotice(from, to, roomId) ==
    [type |-> MessageTypeLEAVE, from |-> from, to |-> to, roomId |-> roomId]

\* C24: leaveRoom(c) for a client c that is a member of a room r leaves c a member
\* of no room and unregistered, sends each remaining member of r exactly one leave
\* message from c and nothing to c, and leaves no room of c without a member; for
\* a client that is a member of no room it changes nothing and sends nothing.
C24_LeaveRoomRemovesAndNotifies ==
    lastOp.op = "leaveRoom" =>
        LET c == lastOp.client IN
        IF lastOp.memberOf # {}
        THEN /\ RoomsOf(c) = {}
             /\ c \notin DOMAIN clients
             /\ \A r \in lastOp.memberOf :
                   /\ hasRoom(r) => Len(getRoomClients(r)) >= 1
                   /\ \A m \in Ids(getRoomClients(r)) :
                         SendsTo(m) = << [ws |-> m, data |-> LeaveNotice(c, m, r)] >>
             /\ SendsTo(c) = <<>>
        ELSE ~lastOp.changed /\ sent = <<>>

\* C25: no room of the table is without a member.
C25_NoEmptyRoom ==
    \A r \in DOMAIN rooms : Len(rooms[r]) >= 1

\* C26: no client id is in the client map of two rooms.
C26_AtMostOneRoom ==
    \A c \in ClientIds : Cardinality(RoomsOf(c)) <= 1

C18_RepeatedConnectIsNoOp ==
    (sigLast.op = "connect" /\ sigLast.before.state \in {"connected", "connecting"}) =>
        /\ sigLast.detail = "returned"
        /\ sigLast.ok
        /\ sockets = sigLast.before.sockets
        /\ ws = sigLast.before.ws
        /\ sigState = sigLast.before.state
        /\ currentUserId = sigLast.before.user
        /\ currentRoomId = sigLast.before.room
        /\ reconnectAttempts = sigLast.before.attempts

\* connect was called again by the connected user, who is in a room
C18_Witness ==
    /\ sigLast.op = "connect"
    /\ sigLast.before.state = "connected"
    /\ sigLast.before.user = "u1"
    /\ sigLast.before.room = "r1"
    /\ sigLast.before.ws # 0

\* C19 as stated: joinRoom or leaveRoom called in a state other than Connected
\* reports failure, sends nothing and leaves currentRoomId as it was.
C19_RoomCallsNeedConnected ==
    (sigLast.op \in {"joinRoom", "leaveRoom"} /\ sigLast.before.state # "connected") =>
        /\ ~sigLast.ok
        /\ sigLast.out = <<>>
        /\ currentRoomId = sigLast.before.room

\* C20: an inbound message that cannot be parsed makes the manager emit one error
\* event and nothing else; its state, its transport, its sockets, its timers and
\* its reconnect counter stay as they were, and a well-formed message that arrives
\* next on the same socket is dispatched as usual.
C20_UnparseableMessageSurvived ==
    /\ (sigLast.op = "message" /\ sigLast.detail = "unparseable") =>
          /\ sigLast.events = <<"error">>
          /\ sigState = sigLast.before.state
          /\ ws = sigLast.before.ws
          /\ sockets = sigLast.before.sockets
          /\ Len(timers) = sigLast.before.timers
          /\ reconnectAttempts = sigLast.before.attempts
    /\ (/\ sigLast.op = "message"
        /\ sigLast.afterUnparseable
        /\ sigLast.data = [parses |-> TRUE,
                           value |-> [type |-> "peer-joined", peerId |-> "u2"]]) =>
          sigLast.events = <<"message", "peer-joined">>

\* on the open transport of a connected manager an unparseable message arrived and
\* then a peer-joined message, which was dispatched
C20_Witness ==
    /\ sigLast.op = "message"
    /\ sigLast.afterUnparseable
    /\ sigLast.events = <<"message", "peer-joined">>
    /\ sigLast.socket = ws
    /\ sigState = "connected"
    /\ sockets[ws].readyState = "OPEN"

\* C21 as stated: when a socket closes with a code other than 1000 and the
\* reconnect counter has reached maxReconnectAttempts, the handler emits an error
\* event, the state is Disconnected and no reconnection is scheduled.
C21_ExhaustedCloseIsTerminalError ==
    (sigLast.op = "close" /\ sigLast.code # NORMAL_CLOSE /\ sigLast.exhausted) =>
        /\ \E k \in 1..Len(sigLast.events) : sigLast.events[k] = "error"
        /\ sigState = "disconnected"
        /\ sigLast.added = 0

C23_HeartbeatIffConnected ==
    /\ heartbeat <=> sigState = "connected"
    /\ (sigLast.op = "heartbeat" /\ sigLast.out # <<>>) => sigLast.readyState = "OPEN"

\* disconnect() has been called and connect() has not started a connection
\* since: no user id is set although sockets were created
AfterDisconnect == currentUserId = Undefined /\ sockets # <<>>

\* C29 as stated: after disconnect() the state is Disconnected and the user id
\* and room id are null; from then until connect() is called no WebSocket is
\* created and none reaches OPEN, whatever timer fires and whatever event a socket
\* delivers, and no heartbeat tick sends a ping.
C29_QuietAfterDisconnect ==
    /\ [](sigLast.op = "disconnect" =>
              /\ sigState = "disconnected"
              /\ currentUserId = Undefined
              /\ currentRoomId = Undefined)
    /\ []((AfterDisconnect /\ sigLast.op = "heartbeat") => sigLast.out = <<>>)
    /\ [][(AfterDisconnect /\ sigLast'.op # "connect") =>
              /\ Len(sockets') = Len(sockets)
              /\ \A i \in 1..Len(sockets) :
                    sockets'[i].readyState = "OPEN" => sockets[i].readyState = "OPEN"]_vars

(***************************************************************************)
(* File transfer claims                                                    *)
(***************************************************************************)
RECURSIVE SumSizes(_)
SumSizes(chunkSeq) ==
    IF chunkSeq = <<>> THEN 0 ELSE Head(chunkSeq).size + SumSizes(Tail(chunkSeq))

\* C5: sendFile of a file of size S with chunk size C prepares exactly ceil(S/C)
\* chunks with indices 0 .. ceil(S/C) - 1; every chunk but the last has size C,
\* the last has size S mod C (C when C divides S), and the sizes sum to S.
C5_ChunksPrepared ==
    ftLast.op = "sendFile" =>
        LET S == ftLast.size
            C == config.chunkSize
            chunks == ftLast.chunks
            n == Len(chunks)
        IN  /\ n * C >= S
            /\ n > 0 => (n - 1) * C < S
            /\ ftLast.total = n
            /\ \A j \in 1..n : chunks[j].index = j - 1 /\ chunks[j].size = Len(chunks[j].data)
            /\ \A j \in 1..(n - 1) : chunks[j].size = C
            /\ n > 0 => chunks[n].size = (IF S % C = 0 THEN C ELSE S % C)
            /\ SumSizes(chunks) = S
            /\ ftLast.fileId \in DOMAIN sendingFiles[ftLast.m] =>
                   sendingFiles[ftLast.m][ftLast.fileId].chunks = chunks

\* sendFile has prepared a file whose last chunk is shorter than the others
C5_Witness ==
    /\ ftLast.op = "sendFile"
    /\ ftLast.size = 3
    /\ config.chunkSize = 2
    /\ Len(ftLast.chunks) = 2
    /\ ftLast.chunks[2].size = 1
    /\ ftLast.fileId \in DOMAIN sendingFiles[ftLast.m]

\* the receiver entry held one chunk for every index 0 .. totalChunks - 1
HeldAllChunks ==
    /\ Len(ftLast.chunks) = ftLast.total
    /\ \A k \in 0..(ftLast.total - 1) : \E j \in 1..Len(ftLast.chunks) : ftLast.chunks[j].index = k

\* C6: for a receiver entry that holds all totalChunks chunks of a file,
\* reconstructFile yields the chunk bytes concatenated in increasing index order,
\* identical to the original file, whatever the order in which they were stored.
C6_ReassembledInIndexOrder ==
    (ftLast.op = "transfer-complete" /\ ftLast.known /\ HeldAllChunks) =>
        /\ emitted[ftLast.m]["completed"][ftLast.fileId] = 1
        /\ completedFile[ftLast.m][ftLast.fileId] = origFile[ftLast.fileId]

\* a file of three or more chunks, stored with a later chunk first, was reassembled
C6_Witness ==
    /\ ftLast.op = "transfer-complete"
    /\ ftLast.known
    /\ HeldAllChunks
    /\ ftLast.total >= 3
    /\ ftLast.chunks[1].index > ftLast.chunks[2].index
    /\ emitted[ftLast.m]["completed"][ftLast.fileId] = 1

IsChunkFrame(frame) ==
    \/ frame.kind = "binary"
    \/ frame.kind = "string" /\ frame.json.type = "chunk-header"

\* C8 as stated: the manager never hands a chunk header or a chunk body to the
\* channel while the channel's bufferedAmount exceeds the high-water mark.
C8_NoChunkAboveHighWaterMark ==
    (\E i \in 1..Len(ftLast.out) : IsChunkFrame(ftLast.out[i])) =>
        ftLast.buffered <= HIGH_WATER_MARK

\* C9 as stated: cancelTransfer(id) on a transfer that is in a table removes it
\* from the tables and from the pending queue and emits exactly one cancelled
\* event for the id, and no failed event is ever emitted for a cancelled id.
C9_CancelRemovesEverywhere ==
    /\ (ftLast.op = "cancelTransfer" /\ ftLast.known) =>
           /\ ftLast.fileId \notin DOMAIN sendingFiles[ftLast.m]
           /\ ftLast.fileId \notin DOMAIN receivingFiles[ftLast.m]
           /\ ~InQueue(transferQueue[ftLast.m], ftLast.fileId)
           /\ CountEvents(ftLast.events, "cancelled", ftLast.fileId) = 1
    /\ \A m \in Mgrs, f \in AllFileIds :
           emitted[m]["cancelled"][f] > 0 => emitted[m]["failed"][f] = 0

\* nothing is in flight: no frame on the channel, no sendFile suspended
Quiescent ==
    /\ \A m \in Mgrs : chan[m] = <<>>
    /\ \A m \in Mgrs : preparing[m] = {}

\* C10 as stated, for the runs that have come to rest: every sendFile of a
\* non-empty file has led to the peer's completed event with the file's content.
C10_SentFilesCompleted ==
    Quiescent =>
        \A m \in Mgrs, f \in AllFileIds :
            (f \in LocalFileIds(m) /\ f \in DOMAIN origFile /\ Len(origFile[f]) > 0) =>
                /\ emitted[Other(m)]["completed"][f] > 0
                /\ completedFile[Other(m)][f] = origFile[f]


\* the sending transfers of manager m whose status is Transferring
TransferringIds(m) ==
    {f \in DOMAIN sendingFiles[m] : sendingFiles[m][f].status = "transferring"}

\* C11 as stated: in every reachable state the number of sending transfers whose
\* status is Transferring is at most maxConcurrentTransfers.
C11_ConcurrencyBound ==
    \A m \in Mgrs : Cardinality(TransferringIds(m)) <= config.maxConcurrentTransfers

\* C15: when the data channel of a manager closes, the handler emits exactly one
\* failed event for every transfer that was in the sending or the receiving table
\* and none for any other transfer, sets every such transfer to Failed, and leaves
\* both tables and the queue empty and the active count at 0.
C15_CloseFailsEveryTransfer ==
    ftLast.op = "close" =>
        /\ \A f \in AllFileIds :
              CountEvents(ftLast.events, "failed", f) = IF f \in ftLast.present THEN 1 ELSE 0
        /\ Len(ftLast.events) = Cardinality(ftLast.present)
        /\ ftLast.marked = ftLast.present
        /\ sendingFiles[ftLast.m] = EmptyMap
        /\ receivingFiles[ftLast.m] = EmptyMap
        /\ transferQueue[ftLast.m] = <<>>
        /\ activeTransfers[ftLast.m] = 0

\* the channel closed while at least two transfers, one of them incoming, were in
\* the tables and another transfer had been cancelled before
C15_Witness ==
    /\ ftLast.op = "close"
    /\ Cardinality(ftLast.present) >= 2
    /\ CountEvents(ftLast.events, "failed", "p1") = 1
    /\ \E f \in AllFileIds \ ftLast.present : emitted[ftLast.m].cancelled[f] > 0

\* C16 as stated: a transfer-error message for a transfer the manager holds is
\* answered by a retry (something is sent again or the retry count of the transfer
\* goes up) or by marking the transfer Failed with one failed event.
C16_TransferErrorHandled ==
    (ftLast.op = "transfer-error" /\ ftLast.known) =>
        \/ ftLast.out # <<>>
        \/ CountEvents(ftLast.events, "failed", ftLast.fileId) = 1
        \/ \E f \in DOMAIN sendingFiles[ftLast.m] :
              sendingFiles[ftLast.m][f].retryCount > 0
              \/ sendingFiles[ftLast.m][f].status = "failed"
        \/ \E f \in DOMAIN receivingFiles[ftLast.m] :
              receivingFiles[ftLast.m][f].retryCount > 0
              \/ receivingFiles[ftLast.m][f].status = "failed"

\* C17 as stated: every chunk-request a receiver issues when it handles file-info
\* names an index below the totalChunks of that incoming transfer.
C17_RequestsBelowTotal ==
    ftLast.op = "file-info" =>
        \A k \in 1..Len(ftLast.out) :
            (ftLast.out[k].kind = "string" /\ ftLast.out[k].json.type = "chunk-request") =>
                ftLast.out[k].json.chunkIndex <
                    receivingFiles[ftLast.m][ftLast.out[k].json.fileId].totalChunks

UnknownIds(m) == TransferIds \ (DOMAIN sendingFiles[m] \cup DOMAIN receivingFiles[m])

\* C28 as stated: in every reachable state, pauseTransfer, resumeTransfer and
\* cancelTransfer called with an id that matches no transfer leave the tables,
\* the queue and the active count as they are, emit no event and send nothing.
C28_UnknownIdIsNoOp ==
    \A m \in Managers : \A f \in UnknownIds(m) :
        /\ pauseTransfer(Effect(m), f) = Effect(m)
        /\ resumeTransfer(Effect(m), f) = Effect(m)
        /\ cancelTransfer(Effect(m), f) = Effect(m)

\* C30: no message and no close delivered by a channel that the manager no longer
\* refers to changes the sending or the receiving table, and both tables are
\* empty when destroy() returns.
C30_FormerChannelIgnored ==
    /\ [](ftLast.op = "destroy" =>
              sendingFiles[ftLast.m] = EmptyMap /\ receivingFiles[ftLast.m] = EmptyMap)
    /\ [][ftLast'.op \in {"formerChannelMessage", "formerChannelClose"} =>
              sendingFiles' = sendingFiles /\ receivingFiles' = receivingFiles]_vars

(***************************************************************************)
(* Peer connection claims                                                  *)
(***************************************************************************)
\* C12 as stated: once setRemoteDescription has succeeded for a peer, every ICE
\* candidate that was handed to addIceCandidate for that peer before the remote
\* description was applied has been applied to the connection; none is dropped.
C12_EarlyCandidatesApplied ==
    (rtcLast.op = "setRemoteDescription" /\ rtcLast.ok) =>
        connections[rtcLast.connection].early \subseteq
            connections[rtcLast.connection].applied

PeerView(q) ==
    << IF q \in DOMAIN peers THEN <<peers[q]>> ELSE <<>>,
       SelectSeq(connections, LAMBDA c : c.peerId = q) >>

\* C14: a step that concerns peer p (a reported state change, removePeer(p), a
\* failed or successful negotiation call for p) leaves the entry, the connections
\* and the data channel of every other peer q as they were.
C14_OtherPeersUntouched ==
    [][\A q \in RtcPeerIds : rtcLast'.peerId # q => PeerView(q)' = PeerView(q)]_rtcVars

\* removePeer(p) has run while another peer had an entry with an open data channel
C14_Witness ==
    /\ rtcLast.op = "removePeer"
    /\ \E q \in DOMAIN peers :
          /\ q # rtcLast.peerId
          /\ connections[peers[q].connection].channel = "open"
\* WebRTCManager.sendMessage(peerId, content) returns true: the Peer holds a data
\* channel and its readyState is open
sendMessageSucceeds(peerId) ==
    /\ peerId \in DOMAIN peers
    /\ peers[peerId].dataChannel
    /\ connections[peers[peerId].connection].channel = "open"

\* C31 as stated: for every peer whose connection has an open data channel,
\* created locally or delivered by the datachannel event, sendMessage succeeds.
C31_OpenChannelIsUsable ==
    \A peerId \in DOMAIN peers :
        connections[peers[peerId].connection].channel = "open" =>
            sendMessageSucceeds(peerId)

\* C32 as stated: every join or leave notification of the last relay operation
\* went to a client whose connection to the relay is open and who is a member of
\* the room the notification names.
C32_NoNoticeToDeparted ==
    \A k \in 1..Len(sent) :
        Field(sent[k].data, "type") \in {MessageTypeJOIN, MessageTypeLEAVE} =>
            /\ sent[k].ws \in connected
            /\ sent[k].ws \in Ids(getRoomClients(sent[k].data.roomId))

\* C33 as stated: when sendFile(b) was called while the earlier sendFile(a) was
\* still preparing its chunks, b is not started (status transferring) while a,
\* not cancelled, has not been started.
C33_AdmittedInCallOrder ==
    [][\A a, b \in AllFileIds :
          (/\ ftLast.op = "sendFileBegin"
           /\ ftLast.fileId = b
           /\ a # b
           /\ a \in preparing[ftLast.m]
           /\ a \in DOMAIN sendingFiles'[ftLast.m]
           /\ b \in DOMAIN sendingFiles'[ftLast.m]
           /\ sendingFiles'[ftLast.m][b].status = "transferring")
          => sendingFiles'[ftLast.m][a].status = "transferring"]_vars

\* the last step put a chunk body on the channel
ChunkBodySent == \E k \in 1..Len(ftLast.out) : ftLast.out[k].kind = "binary"

\* C34 as stated: a chunk-request makes the manager put a chunk of a sending
\* transfer on the channel only if that transfer's status is transferring.
C34_ChunksOnlyWhileTransferring ==
    (ftLast.op = "chunk-request" /\ ChunkBodySent) =>
        /\ ftLast.fileId \in DOMAIN sendingFiles[ftLast.m]
        /\ sendingFiles[ftLast.m][ftLast.fileId].status = "transferring"

\* the last step was the close event, with a code other than 1000, of a socket
\* while the state was Connected
LossWhileConnected ==
    sigLast.op = "close" /\ sigLast.code # NORMAL_CLOSE /\ sigLast.connected

\* C35: after a non-clean close while Connected, with n sockets created so far,
\* the state is eventually Connected with the counter at 0, unless the next
\* connection attempt (socket n + 1) fails.
C35_ReconnectsAfterLoss ==
    \A n \in 1..(MaxSockets - 1) :
        (LossWhileConnected /\ Len(sockets) = n) ~>
            \/ sigState = "connected" /\ reconnectAttempts = 0
            \/ Len(sockets) > n /\ sockets[n + 1].errored

\* the manager is Connected again on a socket created by the timer that a
\* non-clean close scheduled
C35_Witness ==
    /\ sigState = "connected"
    /\ reconnectAttempts = 0
    /\ lastSched.k = 1
    /\ timers = <<>>
    /\ ws >= 2
    /\ sockets[ws].readyState = "OPEN"
    /\ \E i \in 1..(ws - 1) : sockets[i].closed /\ ~sockets[i].errored

(***************************************************************************)
(* File sending claims                                                     *)
(***************************************************************************)
\* the chunk indexes of one transfer, in the order they were put on the channel
SentIndexes(transferId) ==
    LET own == SelectSeq(channelSent, LAMBDA f : f.transferId = transferId)
    IN  [k \in 1..Len(own) |-> own[k].index]

\* C36: WebRTCManager.sendFile puts the chunks of a file on the channel in
\* increasing index order, each exactly once, never while the channel's
\* bufferedAmount is above 16 MiB; and with the buffer draining every started
\* transfer gets all ceil(size / chunkSize) chunks sent (unless the channel closes
\* under it, where nothing can be sent).
C36_ChunksInOrderUnderFlowControl ==
    /\ [](\A transferId \in DOMAIN fileTransfers :
            /\ SentIndexes(transferId) =
                  [k \in 1..fileTransfers[transferId].sentChunks |-> k - 1]
            /\ fileTransfers[transferId].sentChunks <= fileTransfers[transferId].totalChunks
            /\ fileTransfers[transferId].phase = "done" =>
                  fileTransfers[transferId].sentChunks
                      = TotalChunks(fileTransfers[transferId].size))
    /\ [](\A k \in 1..Len(channelSent) : channelSent[k].buffered <= HIGH_WATER_MARK)
    /\ \A transferId \in SendTransferIds :
          (transferId \in DOMAIN fileTransfers) ~>
              \/ peerChannel # "open"
              \/ /\ transferId \in DOMAIN fileTransfers
                 /\ fileTransfers[transferId].phase = "done"
                 /\ Len(SentIndexes(transferId))
                       = TotalChunks(fileTransfers[transferId].size)

\* a three-chunk file fully sent on an open channel after its loop had to wait
\* for the buffer to drain
C36_Witness ==
    /\ peerChannel = "open"
    /\ otherSends > 0
    /\ \E transferId \in DOMAIN fileTransfers :
          /\ fileTransfers[transferId].phase = "done"
          /\ SentIndexes(transferId) = <<0, 1, 2>>
          /\ \E k \in 1..Len(channelSent) :
                /\ channelSent[k].transferId = transferId
                /\ channelSent[k].index > 0
                /\ channelSent[k].buffered = 0

\* the transports that are connecting or open
LiveSockets == {i \in 1..Len(sockets) : sockets[i].readyState \in {"CONNECTING", "OPEN"}}

\* C37: a close or error event of a transport that disconnect() closed and a later
\* connect() replaced changes neither the state, the heartbeat nor the reconnection
\* timers; the channel never has two live transports, and it is Connected whenever
\* its current transport is open.
C37_SupersededTransportIsInert ==
    /\ [][\A i \in 1..Len(sockets) :
            (/\ sigLast'.op \in {"close", "error"}
             /\ sigLast'.socket = i
             /\ sockets[i].readyState = "CLOSING"
             /\ ws > i)
            => UNCHANGED <<sigState, heartbeat, timers>>]_vars
    /\ [](Cardinality(LiveSockets) <= 1)
    /\ []((ws # 0 /\ sockets[ws].readyState = "OPEN") => sigState = "connected")

\* the sending transfers of manager m that have been started and have not yet
\* completed, been cancelled or failed
StartedIds(m) ==
    {f \in DOMAIN sendingFiles[m] : sendingFiles[m][f].status \in {"transferring", "paused"}}

\* C38: in every reachable state activeTransfers is the number of sending
\* transfers that have been started and have not completed, been cancelled or
\* failed; in particular it is never negative.
C38_ActiveCountIsExact ==
    \A m \in Mgrs :
        /\ activeTransfers[m] >= 0
        /\ activeTransfers[m] = Cardinality(StartedIds(m))

\* C39: for every sending transfer, transferredSize never exceeds the size of the
\* file, whatever chunk-request messages the peer sends.
C39_TransferredWithinSize ==
    \A m \in Mgrs : \A f \in DOMAIN sendingFiles[m] :
        sendingFiles[m][f].transferredSize <= sendingFiles[m][f].size

\* the chunk indexes a receiving transfer holds
HeldIndexes(transferFile) ==
    {transferFile.receivedChunks[k].index : k \in 1..Len(transferFile.receivedChunks)}

\* C40: the receiving manager emits completed(fileId, file) only when it holds a
\* chunk for every index 0..totalChunks-1 of that file.
C40_CompletedOnlyWhenWhole ==
    [][\A m \in Mgrs, f \in AllFileIds :
          (/\ f \in DOMAIN receivingFiles[m]
           /\ emitted'[m]["completed"][f] > emitted[m]["completed"][f])
          => \A i \in 0..(receivingFiles[m][f].totalChunks - 1) :
                 i \in HeldIndexes(receivingFiles[m][f])]_vars

====
